---- MODULE Spec2Model ----
(***************************************************************************)
(* Client-side capture and streaming pipeline of the video extension:      *)
(*   WebSocketService        (app/ui/services/websocketService.ts)         *)
(*   FrameCaptureService     (app/ui/background.ts)                        *)
(*   AudioWebSocketService   (app/ui/services/audioStreamService.ts)       *)
(* The browser objects the services drive (WebSocket, interval timers,     *)
(* canvas.toBlob callbacks, timeouts) are modelled by the part of their    *)
(* state the services read: a socket by its readyState, a timer by being   *)
(* pending.  A socket that is CLOSED and no longer referenced can raise no *)
(* further event and is dropped from the pool.                             *)
(***************************************************************************)
EXTENDS Integers, Sequences, FiniteSets, TLC

\* ------------------------------------------------------------------ bounds
MaxSockets == 2        \* sockets of one channel alive at once
MaxPending == 1        \* canvas.toBlob callbacks pending at once
MaxFrames  == 1        \* value at which the frame counter stops the model
MaxTimers  == 1        \* reconnect timeouts pending at once
MaxConfigured == 1     \* largest reconnectAttempts passed to the constructor
MaxCallbacks == 1      \* message callbacks the analyzer registers on the audio channel
MaxObservers == 2      \* callbacks registered on the audio channel by any caller
MaxElements == 3       \* media elements of one kind on the page
MaxAcquiring == 1      \* getUserMedia / tabCapture requests pending at once
MaxEncodings == 2      \* overlapping canvas.toBlob encodings of one encoder
MaxSent == 2           \* frames counted while the order of frames is followed
MaxStreams == 2        \* acquired media streams with live tracks at once

\* ------------------------------------------------------- browser WebSocket
SocketIds == 1..MaxSockets

\* readyState of a socket (NONE: no such socket); req: close() was called on it
NoSocket == [rs |-> "NONE", req |-> FALSE]

\* what one synchronous run of code has done to the sockets so far:
\* the pool, the frames handed to WebSocket.send, and whether it has thrown
World(socks) == [socks |-> socks, tx |-> <<>>, exc |-> FALSE]

HasFree(socks) == \E s \in SocketIds : socks[s].rs = "NONE"

FreeSlot(socks) ==
  CHOOSE s \in SocketIds :
    /\ socks[s].rs = "NONE"
    /\ \A t \in SocketIds : socks[t].rs = "NONE" => s <= t

\* new WebSocket(url): a socket in state CONNECTING
NewSocket(socks) == [socks EXCEPT ![FreeSlot(socks)] = [rs |-> "CONNECTING", req |-> FALSE]]

\* a CLOSED socket that the channel no longer references is gone
Collect(socks, ws) ==
  [s \in SocketIds |-> IF socks[s].rs = "CLOSED" /\ s # ws THEN NoSocket ELSE socks[s]]

\* WebSocket.send(data): throws InvalidStateError while CONNECTING, transmits
\* while OPEN, silently discards while CLOSING or CLOSED
SockSend(w, s, f) ==
  LET res == CASE w.socks[s].rs = "OPEN"       -> "sent"
               [] w.socks[s].rs = "CONNECTING" -> "threw"
               [] OTHER                        -> "discarded"
  IN  [w EXCEPT !.tx = Append(@, [s |-> s, f |-> f, res |-> res]),
                !.exc = (res = "threw")]

\* WebSocket.close(): starts the closing handshake unless already closing
SockClose(w, s) ==
  IF w.socks[s].rs \in {"CONNECTING", "OPEN"}
    THEN [w EXCEPT !.socks[s] = [rs |-> "CLOSING", req |-> TRUE]]
    ELSE w

\* ------------------------------------------------------------ JSON.parse
\* Inbound text frames as token sequences.
TxtConnected == <<"{", "status", ":", "connected", "}">>
TxtReceived  == <<"{", "status", ":", "received", ",", "frame_count", ":", "1", "}">>
TxtReceivedTwo == <<"{", "status", ":", "received", ",", "frame_count", ":", "2", "}">>
TxtNotJson   == <<"not-json">>
TxtTruncated == <<"{", "status", ":">>

InboundTexts == {TxtConnected, TxtReceived, TxtNotJson, TxtTruncated}

Punct == {"{", "}", ":", ","}

NoMsg == [status |-> "none"]

\* a value token: a number for a numeral, else the string
JSONValue(tok) ==
  CASE tok = "0" -> 0
    [] tok = "1" -> 1
    [] tok = "2" -> 2
    [] OTHER     -> tok

\* members of an object: key : value ( , key : value )*  up to position n
RECURSIVE ParseMembers(_, _, _, _)
ParseMembers(toks, i, n, acc) ==
  IF i + 2 > n \/ toks[i] \in Punct \/ toks[i + 1] # ":" \/ toks[i + 2] \in Punct
    THEN [ok |-> FALSE, value |-> NoMsg]
    ELSE LET acc2 == [k \in (DOMAIN acc) \cup {toks[i]} |->
                        IF k = toks[i] THEN JSONValue(toks[i + 2]) ELSE acc[k]]
         IN  IF i + 2 = n
               THEN [ok |-> TRUE, value |-> acc2]
               ELSE IF toks[i + 3] = ","
                      THEN ParseMembers(toks, i + 4, n, acc2)
                      ELSE [ok |-> FALSE, value |-> NoMsg]

\* JSON.parse(event.data): ok = FALSE stands for the SyntaxError it throws
JSONParse(toks) ==
  IF Len(toks) < 3 \/ toks[1] # "{" \/ toks[Len(toks)] # "}"
    THEN [ok |-> FALSE, value |-> NoMsg]
    ELSE ParseMembers(toks, 2, Len(toks) - 1, [k \in {} |-> ""])

\* ------------------------------------------------------------------ state
VARIABLES
  wsService,      \* WebSocketService: ws (0 = null) and its handler slots
  sockets,        \* the sockets of the primary channel
  frameService,   \* FrameCaptureService: its fields (0 / FALSE = null)
  intervals,      \* interval timers of the frame encoder that are live
  pendingBlobs,   \* canvas.toBlob callbacks not yet run, oldest request
                  \* first; "overtaken": a frame requested later has
                  \* already been handed to the channel
  audioWs,        \* AudioWebSocketService: its fields (ws 0 = null; a
                  \* callback by a name for the function registered)
  audioSockets,   \* the sockets of the audio channel
  reconnectTimers,\* reconnect timeouts pending
  sinceOpen,      \* since the last successful open of the audio channel:
                  \* close events seen (counted up to the maximum + 1),
                  \* reconnects scheduled, and whether one of the closes
                  \* was requested by disconnect()
  panel,          \* Sidebar: its React state (videoStream by being set)
  audioCapture,   \* AudioStreamService: its fields (FALSE = null; mediaRecorder
                  \* by the state of the recorder it refers to)
  acquiring,      \* start...Capture calls waiting for their media stream
  liveStreams,    \* media streams handed to the audio capture service whose
                  \* tracks have not been stopped
  analyzer,       \* AudioAnalyzer: its React state, whether its auto-stop
                  \* timeout is pending, and the socket whose connect its
                  \* startRecording awaits (0 = none)
  discovery,      \* stream discovery: the media elements of the page in
                  \* document order and the result of the last call
  lastOp          \* the last step: operation, input (arg), outcome, frames
                  \* handed to sockets (tx), message handed to observers (rx),
                  \* callbacks of the audio channel invoked, in order (calls)

vars == <<wsService, sockets, frameService, intervals, pendingBlobs,
          audioWs, audioSockets, reconnectTimers, sinceOpen,
          panel, audioCapture, acquiring, liveStreams, analyzer, discovery, lastOp>>

audioVars == <<audioWs, audioSockets, reconnectTimers, sinceOpen>>

primaryVars == <<wsService, sockets, frameService, intervals, pendingBlobs>>

\* the state of the audio capture service and of the analyzer panel
captureVars == <<audioCapture, acquiring, liveStreams, analyzer>>

otherVars == <<panel, captureVars, discovery>>

OpCalls(name, arg, res, tx, rx, calls) ==
  [op |-> name, arg |-> arg, res |-> res, tx |-> tx, rx |-> rx, calls |-> calls]

Op(name, arg, res, tx, rx) == OpCalls(name, arg, res, tx, rx, <<>>)

\* the handlers are registered by the panel right after construction
InitWsService ==
  [ws |-> 0, messageHandler |-> TRUE, errorHandler |-> TRUE, closeHandler |-> TRUE]

InitFrameService ==
  [intervalId |-> 0, videoElement |-> FALSE, wsService |-> FALSE,
   canvas |-> FALSE, frameCount |-> 0]

InitPrimary ==
  /\ wsService = InitWsService
  /\ sockets = [s \in SocketIds |-> NoSocket]
  /\ frameService = InitFrameService
  /\ intervals = 0
  /\ pendingBlobs = <<>>

\* new AudioWebSocketService(config): reconnectAttempts || 3
DefaultReconnectAttempts == 3

AwsConstruct(config) ==
  [ws |-> 0,
   reconnectAttempts |-> IF config.reconnectAttempts # 0
                           THEN config.reconnectAttempts
                           ELSE DefaultReconnectAttempts,
   currentAttempt |-> 0, isConnected |-> FALSE,
   messageCallbacks |-> <<>>, errorCallbacks |-> <<>>,
   connectCallbacks |-> <<>>, disconnectCallbacks |-> <<>>]

\* configurations tried: reconnectAttempts absent (0) or 1..MaxConfigured
Configs == [reconnectAttempts : 0..MaxConfigured]

NoneSinceOpen == [closes |-> 0, scheduled |-> 0, explicit |-> FALSE]

InitAudio(config) ==
  /\ audioWs = AwsConstruct(config)
  /\ audioSockets = [s \in SocketIds |-> NoSocket]
  /\ reconnectTimers = 0
  /\ sinceOpen = NoneSinceOpen

\* stream discovery before its first call, on a page with these elements
NoResult == [success |-> FALSE, stream |-> [el |-> 0, via |-> "none"], error |-> "none"]

InitDiscovery(page) == discovery = [page |-> page, result |-> NoResult]

\* new AudioStreamService()
InitAudioCapture ==
  [mediaStream |-> FALSE, mediaRecorder |-> "null", isRecording |-> FALSE,
   audioContext |-> FALSE, onDataCallback |-> FALSE, onErrorCallback |-> FALSE]

\* useState initial values of the AudioAnalyzer; it is not shown yet.
\* startedOn is no field of the panel: it records the sockets of the audio
\* channel that have accepted a start control message
InitAnalyzer ==
  [visible |-> FALSE, isRecording |-> FALSE, isConnected |-> FALSE,
   isAnalyzing |-> FALSE, error |-> FALSE, autoStop |-> FALSE, awaiting |-> 0,
   startedOn |-> {}]

InitCapture ==
  /\ audioCapture = InitAudioCapture
  /\ acquiring = 0
  /\ liveStreams = 0
  /\ analyzer = InitAnalyzer

\* useState initial values of the Sidebar
InitPanel ==
  panel = [videoStream |-> FALSE, isStreaming |-> FALSE, wsConnected |-> FALSE,
           frameCount |-> 0]

InitOthers == InitPanel /\ InitCapture /\ InitDiscovery(<<>>)

\* the audio channel constructed with any of the configurations
Init ==
  /\ InitPrimary
  /\ \E config \in Configs : InitAudio(config)
  /\ InitOthers
  /\ lastOp = Op("init", "", "ok", <<>>, NoMsg)

\* the program's own instances: new AudioWebSocketService() takes no config
InitProgram ==
  /\ InitPrimary
  /\ InitAudio([reconnectAttempts |-> 0])
  /\ InitOthers
  /\ lastOp = Op("init", "", "ok", <<>>, NoMsg)

\* ------------------------------------------------------- WebSocketService
\* isConnected()
IsConnected(svc, socks) == svc.ws # 0 /\ socks[svc.ws].rs = "OPEN"

\* send() that checks only that a socket is held
WsSendUnchecked(svc, w, f) ==
  IF svc.ws = 0
    THEN w
    ELSE SockSend(w, svc.ws, f)

\* send(message): warn and return unless the socket is OPEN
WsSend(svc, w, f) ==
  IF svc.ws = 0 \/ w.socks[svc.ws].rs # "OPEN"
    THEN w
    ELSE SockSend(w, svc.ws, f)

\* disconnect() that closes the socket before it sends the stop message
WsDisconnectCloseFirst(svc, w) ==
  IF svc.ws # 0
    THEN IF w.socks[svc.ws].rs = "OPEN"
           THEN [svc |-> [svc EXCEPT !.ws = 0],
                 w |-> WsSend(svc, SockClose(w, svc.ws), "stop")]
           ELSE [svc |-> [svc EXCEPT !.ws = 0], w |-> w]
    ELSE [svc |-> svc, w |-> w]

\* disconnect(): stop message and close when open, then forget the socket;
\* result: the service and the world after it
WsDisconnect(svc, w) ==
  IF svc.ws # 0
    THEN IF w.socks[svc.ws].rs = "OPEN"
           THEN LET sent == WsSend(svc, w, "stop")
                IN  IF sent.exc
                      THEN [svc |-> svc, w |-> sent]
                      ELSE [svc |-> [svc EXCEPT !.ws = 0],
                            w |-> SockClose(sent, svc.ws)]
           ELSE [svc |-> [svc EXCEPT !.ws = 0], w |-> w]
    ELSE [svc |-> svc, w |-> w]

\* outcome of a synchronous call for lastOp
Outcome(w) == IF w.exc THEN "threw" ELSE "ok"

\* connect() without the already-connected check
ConnectAlways ==
  /\ HasFree(sockets)
  /\ sockets' = Collect(NewSocket(sockets), FreeSlot(sockets))
  /\ wsService' = [wsService EXCEPT !.ws = FreeSlot(sockets)]
  /\ lastOp' = Op("connect", "", "pending", <<>>, NoMsg)
  /\ UNCHANGED <<frameService, intervals, pendingBlobs>>
  /\ UNCHANGED <<audioVars, otherVars>>

\* connect(): resolves at once when already open, else constructs a socket
Connect ==
  /\ IF IsConnected(wsService, sockets)
       THEN /\ lastOp' = Op("connect", "", "resolved", <<>>, NoMsg)
            /\ UNCHANGED <<wsService, sockets>>
       ELSE /\ HasFree(sockets)
            /\ sockets' = Collect(NewSocket(sockets), FreeSlot(sockets))
            /\ wsService' = [wsService EXCEPT !.ws = FreeSlot(sockets)]
            /\ lastOp' = Op("connect", "", "pending", <<>>, NoMsg)
  /\ UNCHANGED <<frameService, intervals, pendingBlobs>>
  /\ UNCHANGED <<audioVars, otherVars>>

Disconnect ==
  LET r == WsDisconnect(wsService, World(sockets))
  IN  /\ wsService' = r.svc
      /\ sockets' = Collect(r.w.socks, r.svc.ws)
      /\ lastOp' = Op("disconnect", "", Outcome(r.w), r.w.tx, NoMsg)
      /\ UNCHANGED <<frameService, intervals, pendingBlobs>>
      /\ UNCHANGED <<audioVars, otherVars>>

Payloads == {"start", "stop", "bin"}

Send(f) ==
  LET w == WsSend(wsService, World(sockets), f)
  IN  /\ sockets' = w.socks
      /\ lastOp' = Op("send", "", Outcome(w), w.tx, NoMsg)
      /\ UNCHANGED <<wsService, frameService, intervals, pendingBlobs>>
      /\ UNCHANGED <<audioVars, otherVars>>

\* ws.onopen: resolves the promise of connect()
WsOnOpen(s) ==
  /\ sockets[s].rs = "CONNECTING"
  /\ sockets' = [sockets EXCEPT ![s].rs = "OPEN"]
  /\ lastOp' = Op("onopen", "", "resolved", <<>>, NoMsg)
  /\ UNCHANGED <<wsService, frameService, intervals, pendingBlobs>>
  /\ UNCHANGED <<audioVars, otherVars>>

\* the server starts the closing handshake: readyState becomes CLOSING
WsRemoteClosing(s) ==
  /\ sockets[s].rs = "OPEN"
  /\ sockets' = [sockets EXCEPT ![s].rs = "CLOSING"]
  /\ lastOp' = Op("closing", "", "ok", <<>>, NoMsg)
  /\ UNCHANGED <<wsService, frameService, intervals, pendingBlobs>>
  /\ UNCHANGED <<audioVars, otherVars>>

\* ws.onmessage without the try/catch around the parse
WsReceiveNoCatch(svc, text) ==
  LET parsed == JSONParse(text)
  IN  IF parsed.ok
        THEN IF svc.messageHandler
               THEN [res |-> "delivered", rx |-> parsed.value]
               ELSE [res |-> "nohandler", rx |-> NoMsg]
        ELSE [res |-> "threw", rx |-> NoMsg]

\* the body of ws.onmessage: what is handed to the message handler, and how
\* the handler call ended ("caught": the parse threw and was caught)
WsReceive(svc, text) ==
  LET parsed == JSONParse(text)
  IN  IF parsed.ok
        THEN IF svc.messageHandler
               THEN [res |-> "delivered", rx |-> parsed.value]
               ELSE [res |-> "nohandler", rx |-> NoMsg]
        ELSE [res |-> "caught", rx |-> NoMsg]

WsOnMessage(s, text) ==
  LET r == WsReceive(wsService, text)
  IN  /\ sockets[s].rs \in {"OPEN", "CLOSING"}
      /\ lastOp' = Op("onmessage", text, r.res, <<>>, r.rx)
      /\ UNCHANGED <<wsService, sockets, frameService, intervals, pendingBlobs>>
      /\ UNCHANGED <<audioVars, otherVars>>

\* ws.onerror (err: the connection failed) and then ws.onclose
WsOnClose(s, err) ==
  /\ sockets[s].rs \in {"CONNECTING", "OPEN", "CLOSING"}
  /\ sockets' = Collect([sockets EXCEPT ![s].rs = "CLOSED"], wsService.ws)
  /\ lastOp' = Op("onclose", "", IF err THEN "rejected" ELSE "ok", <<>>, NoMsg)
  /\ UNCHANGED <<wsService, frameService, intervals, pendingBlobs>>
  /\ UNCHANGED <<audioVars, otherVars>>

NextChannel ==
  \/ Connect
  \/ Disconnect
  \/ \E f \in Payloads : Send(f)
  \/ \E s \in SocketIds : WsOnOpen(s)
  \/ \E s \in SocketIds : WsRemoteClosing(s)
  \/ \E s \in SocketIds, text \in InboundTexts : WsOnMessage(s, text)
  \/ \E s \in SocketIds, err \in BOOLEAN : WsOnClose(s, err)

\* ---------------------------------------------------- FrameCaptureService
\* initialize(videoElement, wsService)
FcInitialize(fs) ==
  [fs EXCEPT !.videoElement = TRUE, !.wsService = TRUE, !.canvas = TRUE]

\* start() without the already-running check
FcStartAgain(fs, svc, w, iv) ==
  IF ~fs.videoElement \/ ~fs.wsService \/ ~IsConnected(svc, w.socks)
    THEN [fs |-> fs, w |-> w, iv |-> iv, res |-> "threw"]
    ELSE LET sent == WsSend(svc, w, "start")
         IN  [fs |-> [fs EXCEPT !.intervalId = 1], w |-> sent,
              iv |-> iv + 1, res |-> "started"]

\* start() that does not ask the channel whether it is connected
FcStartUnchecked(fs, svc, w, iv) ==
  IF fs.intervalId # 0
    THEN [fs |-> fs, w |-> w, iv |-> iv, res |-> "noop"]
    ELSE IF ~fs.videoElement \/ ~fs.wsService
           THEN [fs |-> fs, w |-> w, iv |-> iv, res |-> "threw"]
           ELSE LET sent == WsSend(svc, w, "start")
                IN  [fs |-> [fs EXCEPT !.intervalId = 1], w |-> sent,
                     iv |-> iv + 1, res |-> "started"]

\* start(): no-op while running, configuration error when a prerequisite is
\* missing, else the start message and a new interval timer
FcStart(fs, svc, w, iv) ==
  IF fs.intervalId # 0
    THEN [fs |-> fs, w |-> w, iv |-> iv, res |-> "noop"]
    ELSE IF ~fs.videoElement \/ ~fs.wsService \/ ~IsConnected(svc, w.socks)
           THEN [fs |-> fs, w |-> w, iv |-> iv, res |-> "threw"]
           ELSE LET sent == WsSend(svc, w, "start")
                IN  IF sent.exc
                      THEN [fs |-> fs, w |-> sent, iv |-> iv, res |-> "threw"]
                      ELSE [fs |-> [fs EXCEPT !.intervalId = 1], w |-> sent,
                            iv |-> iv + 1, res |-> "started"]

\* stop() that sends the stop message and leaves the interval running
FcStopSendsOnly(fs, svc, w, iv) ==
  LET sent == IF fs.wsService THEN WsSend(svc, w, "stop") ELSE w
  IN  [fs |-> fs, w |-> sent, iv |-> iv, res |-> Outcome(sent)]

\* stop(): clears the interval, then sends the stop message
FcStop(fs, svc, w, iv) ==
  LET running == fs.intervalId # 0
      sent    == IF fs.wsService THEN WsSend(svc, w, "stop") ELSE w
  IN  [fs |-> [fs EXCEPT !.intervalId = 0],
       w |-> sent,
       iv |-> IF running THEN iv - 1 ELSE iv,
       res |-> Outcome(sent)]

\* captureAndSendFrame() without the test of the source's dimensions
FcCapturesAnySize(fs, svc, socks, dims, ctx) ==
  /\ fs.videoElement /\ fs.wsService /\ fs.canvas /\ IsConnected(svc, socks)
  /\ ctx

\* captureAndSendFrame() up to canvas.toBlob: TRUE when an encoding is
\* requested (dims: the source has non-zero width and height; ctx: a 2d
\* context was obtained)
FcCaptures(fs, svc, socks, dims, ctx) ==
  /\ fs.videoElement /\ fs.wsService /\ fs.canvas /\ IsConnected(svc, socks)
  /\ dims
  /\ ctx

\* the toBlob callback: sends the blob and counts it while connected
FcBlobCallback(fs, svc, w, blob) ==
  IF blob /\ fs.wsService /\ IsConnected(svc, w.socks)
    THEN LET sent == WsSend(svc, w, "bin")
         IN  IF sent.exc
               THEN [fs |-> fs, w |-> sent]
               ELSE [fs |-> [fs EXCEPT !.frameCount = @ + 1], w |-> sent]
    ELSE [fs |-> fs, w |-> w]

\* cleanup(): stop(), then every reference and the counter are cleared
FcCleanup(fs, svc, w, iv) ==
  LET r == FcStop(fs, svc, w, iv)
  IN  IF r.w.exc
        THEN r
        ELSE [r EXCEPT !.fs = InitFrameService]

Initialize ==
  /\ frameService' = FcInitialize(frameService)
  /\ lastOp' = Op("initialize", "", "ok", <<>>, NoMsg)
  /\ UNCHANGED <<wsService, sockets, intervals, pendingBlobs>>
  /\ UNCHANGED <<audioVars, otherVars>>

Start ==
  LET r == FcStart(frameService, wsService, World(sockets), intervals)
  IN  /\ frameService' = r.fs
      /\ sockets' = r.w.socks
      /\ intervals' = r.iv
      /\ lastOp' = Op("start", "", r.res, r.w.tx, NoMsg)
      /\ UNCHANGED <<wsService, pendingBlobs>>
      /\ UNCHANGED <<audioVars, otherVars>>

Stop ==
  LET r == FcStop(frameService, wsService, World(sockets), intervals)
  IN  /\ frameService' = r.fs
      /\ sockets' = r.w.socks
      /\ intervals' = r.iv
      /\ lastOp' = Op("stop", "", r.res, r.w.tx, NoMsg)
      /\ UNCHANGED <<wsService, pendingBlobs>>
      /\ UNCHANGED <<audioVars, otherVars>>

Cleanup ==
  LET r == FcCleanup(frameService, wsService, World(sockets), intervals)
  IN  /\ frameService' = r.fs
      /\ sockets' = r.w.socks
      /\ intervals' = r.iv
      /\ lastOp' = Op("cleanup", "", r.res, r.w.tx, NoMsg)
      /\ UNCHANGED <<wsService, pendingBlobs>>
      /\ UNCHANGED <<audioVars, otherVars>>

ResetFrameCount ==
  /\ frameService' = [frameService EXCEPT !.frameCount = 0]
  /\ lastOp' = Op("resetFrameCount", "", "ok", <<>>, NoMsg)
  /\ UNCHANGED <<wsService, sockets, intervals, pendingBlobs>>
  /\ UNCHANGED <<audioVars, otherVars>>

\* the pending encodings once the one at position i has completed; sent: its
\* frame was handed to the channel, ahead of every older one still pending
Completed(pending, i, sent) ==
  [j \in 1..(Len(pending) - 1) |->
     IF j < i
       THEN IF sent THEN "overtaken" ELSE pending[j]
       ELSE pending[j + 1]]

\* what the source gave the tick: zero width or height, no 2d context, a
\* canvas that the drawn frame left not origin-clean, or a frame to encode
Drawn(dims, ctx, clean) ==
  IF ~dims THEN "zero"
  ELSE IF ~ctx THEN "nocontext"
  ELSE IF ~clean THEN "tainted"
  ELSE "drawn"

\* one period of the interval timer, with at most max encodings pending.
\* The source is looked at only once the encoder's own guards have passed
\* ("unready" otherwise).  canvas.toBlob throws a SecurityError on a canvas
\* that is not origin-clean (clean = FALSE: the frame drawn came from a
\* cross-origin source), and nothing in the interval callback catches it
TickUpTo(max, dims, ctx, clean) ==
  LET seen == IF FcCaptures(frameService, wsService, sockets, TRUE, TRUE)
                THEN Drawn(dims, ctx, clean)
                ELSE "unready"
  IN  /\ intervals > 0
      /\ IF FcCaptures(frameService, wsService, sockets, dims, ctx)
           THEN IF clean
                  THEN /\ Len(pendingBlobs) < max
                       /\ pendingBlobs' = Append(pendingBlobs, "fresh")
                       /\ lastOp' = Op("tick", seen, "toBlob", <<>>, NoMsg)
                  ELSE /\ lastOp' = Op("tick", seen, "threw", <<>>, NoMsg)
                       /\ UNCHANGED pendingBlobs
           ELSE /\ lastOp' = Op("tick", seen, "skipped", <<>>, NoMsg)
                /\ UNCHANGED pendingBlobs
      /\ UNCHANGED <<wsService, sockets, frameService, intervals>>
      /\ UNCHANGED <<audioVars, otherVars>>

Tick(dims, ctx, clean) == TickUpTo(MaxPending, dims, ctx, clean)

\* a pending toBlob callback runs, in whatever order the encodings complete
\* (blob = FALSE: the encoding gave null); the counter is followed up to max
BlobReadyUpTo(max, blob) ==
  \E i \in 1..Len(pendingBlobs) :
    LET r == FcBlobCallback(frameService, wsService, World(sockets), blob)
    IN  /\ r.fs.frameCount <= max
        /\ pendingBlobs' = Completed(pendingBlobs, i, r.w.tx # <<>>)
        /\ frameService' = r.fs
        /\ sockets' = r.w.socks
        /\ lastOp' = Op("toBlob", pendingBlobs[i],
                         IF blob THEN Outcome(r.w) ELSE "null", r.w.tx, NoMsg)
        /\ UNCHANGED <<wsService, intervals>>
        /\ UNCHANGED <<audioVars, otherVars>>

BlobReady(blob) == BlobReadyUpTo(MaxFrames, blob)

NextEncoder ==
  \/ Initialize
  \/ Start
  \/ Stop
  \/ Cleanup
  \/ ResetFrameCount
  \/ \E dims \in BOOLEAN, ctx \in BOOLEAN, clean \in BOOLEAN : Tick(dims, ctx, clean)
  \/ \E blob \in BOOLEAN : BlobReady(blob)

NextPrimary == NextChannel \/ NextEncoder

SpecPrimary == InitProgram /\ [][NextPrimary]_vars

\* --------------------------------------------------- overlapping encodings
\* The frame encoder on its channel when an encoding can take longer than a
\* timer period, so that several toBlob callbacks are pending at once.
FrameTick(dims, ctx, clean) == TickUpTo(MaxEncodings, dims, ctx, clean)

FrameBlobReady(blob) == BlobReadyUpTo(MaxSent, blob)

NextFrames ==
  \/ Connect
  \/ \E s \in SocketIds : WsOnOpen(s)
  \/ \E s \in SocketIds, err \in BOOLEAN : WsOnClose(s, err)
  \/ Initialize
  \/ Start
  \/ Stop
  \/ \E dims \in BOOLEAN, ctx \in BOOLEAN, clean \in BOOLEAN : FrameTick(dims, ctx, clean)
  \/ \E blob \in BOOLEAN : FrameBlobReady(blob)

SpecFrames == InitProgram /\ [][NextFrames]_vars

\* -------------------------------------------------- AudioWebSocketService
\* connect(): always constructs a socket and makes it the current one
AwsConnect(a, socks) ==
  [a |-> [a EXCEPT !.ws = FreeSlot(socks)], socks |-> NewSocket(socks)]

\* sendAudioChunk(blob) / sendControlMessage(action): warn and return unless
\* the connected flag is set and a socket is held
AwsSend(a, w, f) ==
  IF ~a.isConnected \/ a.ws = 0
    THEN w
    ELSE SockSend(w, a.ws, f)

\* disconnect(): stop message, close, forget the socket, clear the flag
AwsDisconnect(a, w) ==
  IF a.ws # 0
    THEN LET sent == AwsSend(a, w, "stop")
         IN  IF sent.exc
               THEN [a |-> a, w |-> sent]
               ELSE [a |-> [a EXCEPT !.ws = 0, !.isConnected = FALSE],
                     w |-> SockClose(sent, a.ws)]
    ELSE [a |-> a, w |-> w]

\* ws.onopen that leaves the attempt counter alone
AwsOpenedNoReset(a) == [a EXCEPT !.isConnected = TRUE]

\* ws.onopen: sets the flag and resets the attempt counter
AwsOpened(a) == [a EXCEPT !.isConnected = TRUE, !.currentAttempt = 0]

\* ws.onclose whose attempt test is off by one
AwsClosedOffByOne(a) ==
  IF a.currentAttempt <= a.reconnectAttempts
    THEN [a |-> [a EXCEPT !.isConnected = FALSE, !.currentAttempt = @ + 1],
          schedule |-> TRUE]
    ELSE [a |-> [a EXCEPT !.isConnected = FALSE], schedule |-> FALSE]

\* ws.onclose: clears the flag; schedule = a reconnect timeout is set
AwsClosed(a) ==
  IF a.currentAttempt < a.reconnectAttempts
    THEN [a |-> [a EXCEPT !.isConnected = FALSE, !.currentAttempt = @ + 1],
          schedule |-> TRUE]
    ELSE [a |-> [a EXCEPT !.isConnected = FALSE], schedule |-> FALSE]

\* callbacks.forEach((cb) => cb(...)): the calls made, in order
ForEach(callbacks, list) ==
  [i \in 1..Len(callbacks) |-> [list |-> list, cb |-> callbacks[i]]]

\* onMessage / onError / onConnect / onDisconnect with a single slot
AwsRegisterSlot(callbacks, cb) == <<cb>>

\* onMessage / onError / onConnect / onDisconnect: callbacks.push(callback)
AwsRegister(callbacks, cb) == Append(callbacks, cb)

\* the body of ws.onmessage: each registered callback gets the parsed message
AwsReceive(a, text) ==
  LET parsed == JSONParse(text)
  IN  IF parsed.ok
        THEN IF a.messageCallbacks # <<>>
               THEN [res |-> "delivered", rx |-> parsed.value,
                     calls |-> ForEach(a.messageCallbacks, "message")]
               ELSE [res |-> "nohandler", rx |-> NoMsg, calls |-> <<>>]
        ELSE [res |-> "caught", rx |-> NoMsg, calls |-> <<>>]

AudioConnect ==
  LET r == AwsConnect(audioWs, audioSockets)
  IN  /\ HasFree(audioSockets)
      /\ audioWs' = r.a
      /\ audioSockets' = Collect(r.socks, r.a.ws)
      /\ lastOp' = Op("audio.connect", "", "pending", <<>>, NoMsg)
      /\ UNCHANGED <<reconnectTimers, sinceOpen>>
      /\ UNCHANGED <<primaryVars, otherVars>>

\* the timeout set by ws.onclose runs: this.connect().catch(console.error)
ReconnectTimer ==
  LET r == AwsConnect(audioWs, audioSockets)
  IN  /\ reconnectTimers > 0
      /\ HasFree(audioSockets)
      /\ reconnectTimers' = reconnectTimers - 1
      /\ audioWs' = r.a
      /\ audioSockets' = Collect(r.socks, r.a.ws)
      /\ lastOp' = Op("audio.reconnect", "", "pending", <<>>, NoMsg)
      /\ UNCHANGED sinceOpen
      /\ UNCHANGED <<primaryVars, otherVars>>

AudioPayloads == {"start", "stop", "stats", "bin"}

\* sendAudioChunk (f = "bin") or sendControlMessage (any other f)
AudioSend(f) ==
  LET w == AwsSend(audioWs, World(audioSockets), f)
  IN  /\ audioSockets' = w.socks
      /\ lastOp' = Op("audio.send", "", Outcome(w), w.tx, NoMsg)
      /\ UNCHANGED <<audioWs, reconnectTimers, sinceOpen>>
      /\ UNCHANGED <<primaryVars, otherVars>>

AudioDisconnect ==
  LET r == AwsDisconnect(audioWs, World(audioSockets))
  IN  /\ audioWs' = r.a
      /\ audioSockets' = Collect(r.w.socks, r.a.ws)
      /\ lastOp' = Op("audio.disconnect", "", Outcome(r.w), r.w.tx, NoMsg)
      /\ UNCHANGED <<reconnectTimers, sinceOpen>>
      /\ UNCHANGED <<primaryVars, otherVars>>

\* the callback the analyzer registers each time its effect runs
AnalyzerCallbacks == {"analyzer"}

\* callbacks registered on all four lists together
Registered(a) ==
  Len(a.messageCallbacks) + Len(a.errorCallbacks)
    + Len(a.connectCallbacks) + Len(a.disconnectCallbacks)

\* onMessage(callback)
AudioOnMessage(cb) ==
  /\ audioWs' = [audioWs EXCEPT !.messageCallbacks = AwsRegister(@, cb)]
  /\ lastOp' = Op("audio.onMessage", cb, "ok", <<>>, NoMsg)
  /\ UNCHANGED <<audioSockets, reconnectTimers, sinceOpen>>
  /\ UNCHANGED <<primaryVars, otherVars>>

\* onError(callback)
AudioOnError(cb) ==
  /\ audioWs' = [audioWs EXCEPT !.errorCallbacks = AwsRegister(@, cb)]
  /\ lastOp' = Op("audio.onError", cb, "ok", <<>>, NoMsg)
  /\ UNCHANGED <<audioSockets, reconnectTimers, sinceOpen>>
  /\ UNCHANGED <<primaryVars, otherVars>>

\* onConnect(callback)
AudioOnConnect(cb) ==
  /\ audioWs' = [audioWs EXCEPT !.connectCallbacks = AwsRegister(@, cb)]
  /\ lastOp' = Op("audio.onConnect", cb, "ok", <<>>, NoMsg)
  /\ UNCHANGED <<audioSockets, reconnectTimers, sinceOpen>>
  /\ UNCHANGED <<primaryVars, otherVars>>

\* onDisconnect(callback)
AudioOnDisconnect(cb) ==
  /\ audioWs' = [audioWs EXCEPT !.disconnectCallbacks = AwsRegister(@, cb)]
  /\ lastOp' = Op("audio.onDisconnect", cb, "ok", <<>>, NoMsg)
  /\ UNCHANGED <<audioSockets, reconnectTimers, sinceOpen>>
  /\ UNCHANGED <<primaryVars, otherVars>>

AwsOnOpen(s) ==
  /\ audioSockets[s].rs = "CONNECTING"
  /\ audioSockets' = [audioSockets EXCEPT ![s].rs = "OPEN"]
  /\ audioWs' = AwsOpened(audioWs)
  /\ sinceOpen' = NoneSinceOpen
  /\ lastOp' = OpCalls("audio.onopen", "", "resolved", <<>>, NoMsg,
                       ForEach(audioWs.connectCallbacks, "connect"))
  /\ UNCHANGED reconnectTimers
  /\ UNCHANGED <<primaryVars, otherVars>>

AwsRemoteClosing(s) ==
  /\ audioSockets[s].rs = "OPEN"
  /\ audioSockets' = [audioSockets EXCEPT ![s].rs = "CLOSING"]
  /\ lastOp' = Op("audio.closing", "", "ok", <<>>, NoMsg)
  /\ UNCHANGED <<audioWs, reconnectTimers, sinceOpen>>
  /\ UNCHANGED <<primaryVars, otherVars>>

AwsOnMessage(s, text) ==
  LET r == AwsReceive(audioWs, text)
  IN  /\ audioSockets[s].rs \in {"OPEN", "CLOSING"}
      /\ lastOp' = OpCalls("audio.onmessage", text, r.res, <<>>, r.rx, r.calls)
      /\ UNCHANGED <<audioWs, audioSockets, reconnectTimers, sinceOpen>>
      /\ UNCHANGED <<primaryVars, otherVars>>

Min(a, b) == IF a < b THEN a ELSE b

\* ws.onerror (err: the connection failed) and then ws.onclose
AwsOnClose(s, err) ==
  LET r == AwsClosed(audioWs)
  IN  /\ audioSockets[s].rs \in {"CONNECTING", "OPEN", "CLOSING"}
      /\ r.schedule => reconnectTimers < MaxTimers
      /\ audioSockets' = Collect([audioSockets EXCEPT ![s].rs = "CLOSED"], audioWs.ws)
      /\ audioWs' = r.a
      /\ reconnectTimers' = IF r.schedule THEN reconnectTimers + 1 ELSE reconnectTimers
      /\ sinceOpen' = [closes |-> Min(sinceOpen.closes + 1, audioWs.reconnectAttempts + 1),
                       scheduled |-> IF r.schedule THEN sinceOpen.scheduled + 1
                                                   ELSE sinceOpen.scheduled,
                       explicit |-> sinceOpen.explicit \/ audioSockets[s].req]
      /\ lastOp' = OpCalls("audio.onclose", "",
                           IF audioSockets[s].req THEN "requested" ELSE "unexpected",
                           <<>>, NoMsg,
                           (IF err THEN ForEach(audioWs.errorCallbacks, "error") ELSE <<>>)
                             \o ForEach(audioWs.disconnectCallbacks, "disconnect"))
      /\ UNCHANGED <<primaryVars, otherVars>>

NextAudio ==
  \/ AudioConnect
  \/ ReconnectTimer
  \/ \E f \in AudioPayloads : AudioSend(f)
  \/ AudioDisconnect
  \/ Len(audioWs.messageCallbacks) < MaxCallbacks
       /\ \E cb \in AnalyzerCallbacks : AudioOnMessage(cb)
  \/ \E s \in SocketIds : AwsOnOpen(s)
  \/ \E s \in SocketIds : AwsRemoteClosing(s)
  \/ \E s \in SocketIds, text \in InboundTexts : AwsOnMessage(s, text)
  \/ \E s \in SocketIds, err \in BOOLEAN : AwsOnClose(s, err)

SpecAudio == Init /\ [][NextAudio]_vars

\* ------------------------------------------------------ AudioStreamService
\* MediaRecorder.stop(): nothing on an inactive recorder; a recording one goes
\* inactive with its last dataavailable event still to come ("flushing")
MediaRecorderStop(state) == IF state = "recording" THEN "flushing" ELSE state

\* stopCapture() that stops the recorder without looking at what it holds
AscStopCaptureUnguarded(c) ==
  IF c.mediaRecorder = "null"
    THEN [c |-> c, exc |-> TRUE, stopped |-> 0]
    ELSE [c |-> [c EXCEPT !.mediaRecorder = MediaRecorderStop(@),
                          !.isRecording = FALSE,
                          !.mediaStream = FALSE,
                          !.audioContext = FALSE],
          exc |-> FALSE,
          stopped |-> IF c.mediaStream THEN 1 ELSE 0]

\* stopCapture(): stops the recorder when it holds one and believes it is
\* recording, stops the tracks and drops the stream, closes the audio context;
\* stopped: the streams whose tracks it has stopped
AscStopCapture(c) ==
  LET c1 == IF c.mediaRecorder # "null" /\ c.isRecording
              THEN [c EXCEPT !.mediaRecorder = MediaRecorderStop(@),
                             !.isRecording = FALSE]
              ELSE c
  IN  [c |-> [c1 EXCEPT !.mediaStream = FALSE, !.audioContext = FALSE],
       exc |-> FALSE,
       stopped |-> IF c.mediaStream THEN 1 ELSE 0]

\* setupMediaRecorder() on the stream just acquired; setup: "ok", or which of
\* new MediaRecorder(...) and recorder.start(1000) throws
AscSetupMediaRecorder(c, setup) ==
  CASE setup = "ok" ->
         [c |-> [c EXCEPT !.mediaRecorder = "recording", !.isRecording = TRUE],
          exc |-> FALSE]
    [] setup = "startThrows" ->
         [c |-> [c EXCEPT !.mediaRecorder = "inactive"], exc |-> TRUE]
    [] OTHER -> [c |-> c, exc |-> TRUE]

\* the recorder's ondataavailable: chunk = the event carries data
AscDataAvailable(c, chunk) ==
  IF chunk /\ c.onDataCallback THEN "delivered" ELSE "dropped"

\* how the service recognises the state it is stopped in
CaptureState(c) ==
  CASE c.mediaRecorder # "null" /\ c.isRecording /\ c.mediaRecorder = "recording" -> "recording"
    [] c.mediaRecorder # "null" /\ c.isRecording -> "failed"
    [] OTHER -> "idle"

OnData ==
  /\ audioCapture' = [audioCapture EXCEPT !.onDataCallback = TRUE]
  /\ lastOp' = Op("onData", "", "ok", <<>>, NoMsg)
  /\ UNCHANGED <<primaryVars, audioVars, panel, acquiring, liveStreams, analyzer, discovery>>

OnError ==
  /\ audioCapture' = [audioCapture EXCEPT !.onErrorCallback = TRUE]
  /\ lastOp' = Op("onError", "", "ok", <<>>, NoMsg)
  /\ UNCHANGED <<primaryVars, audioVars, panel, acquiring, liveStreams, analyzer, discovery>>

\* startMicrophoneCapture() / startTabAudioCapture() up to the await of the
\* media stream
StartCapture(mode) ==
  /\ acquiring < MaxAcquiring
  /\ acquiring' = acquiring + 1
  /\ lastOp' = Op(mode, "", "pending", <<>>, NoMsg)
  /\ UNCHANGED <<primaryVars, audioVars, panel, audioCapture, liveStreams, analyzer, discovery>>

\* the rest of start...Capture(): the stream arrives (granted), is assigned to
\* this.mediaStream in place of whatever was held, and the recorder is set
\* up, or the request fails; every failure is handed to the error callback
\* and rethrown to the caller
Acquired(granted, setup) ==
  LET held == [audioCapture EXCEPT !.mediaStream = TRUE]
      r    == IF granted
                THEN AscSetupMediaRecorder(held, setup)
                ELSE [c |-> audioCapture, exc |-> TRUE]
  IN  /\ acquiring > 0
      /\ granted => liveStreams < MaxStreams
      /\ acquiring' = acquiring - 1
      /\ liveStreams' = IF granted THEN liveStreams + 1 ELSE liveStreams
      /\ audioCapture' = r.c
      /\ lastOp' = Op("acquired", IF audioCapture.onDataCallback THEN "callback" ELSE "",
                      IF r.exc THEN "rejected" ELSE "resolved", <<>>, NoMsg)
      /\ UNCHANGED <<primaryVars, audioVars, panel, analyzer, discovery>>

\* a dataavailable event of the recorder
DataAvailable(chunk) ==
  /\ audioCapture.mediaRecorder = "recording"
  /\ lastOp' = Op("dataavailable", IF chunk THEN "chunk" ELSE "",
                  AscDataAvailable(audioCapture, chunk), <<>>, NoMsg)
  /\ UNCHANGED <<primaryVars, audioVars, panel, captureVars, discovery>>

\* the recorder fails: it goes inactive and its onerror reports the error
RecorderError ==
  /\ audioCapture.mediaRecorder = "recording"
  /\ audioCapture' = [audioCapture EXCEPT !.mediaRecorder = "inactive"]
  /\ lastOp' = Op("recorder.onerror", "",
                  IF audioCapture.onErrorCallback THEN "reported" ELSE "unreported",
                  <<>>, NoMsg)
  /\ UNCHANGED <<primaryVars, audioVars, panel, acquiring, liveStreams, analyzer, discovery>>

\* the last dataavailable event of a recorder that was stopped
FinalData(chunk) ==
  /\ audioCapture.mediaRecorder = "flushing"
  /\ audioCapture' = [audioCapture EXCEPT !.mediaRecorder = "inactive"]
  /\ lastOp' = Op("dataavailable", IF chunk THEN "final chunk" ELSE "final",
                  AscDataAvailable(audioCapture, chunk), <<>>, NoMsg)
  /\ UNCHANGED <<primaryVars, audioVars, panel, acquiring, liveStreams, analyzer, discovery>>

StopCapture ==
  LET r == AscStopCapture(audioCapture)
  IN  /\ audioCapture' = r.c
      /\ liveStreams' = liveStreams - r.stopped
      /\ lastOp' = Op("stopCapture", CaptureState(audioCapture),
                      IF r.exc THEN "threw" ELSE "ok", <<>>, NoMsg)
      /\ UNCHANGED <<primaryVars, audioVars, panel, acquiring, analyzer, discovery>>

\* getAudioVisualization(): creates the audio context when a stream is held
GetAudioVisualization ==
  /\ audioCapture' = IF audioCapture.mediaStream
                       THEN [audioCapture EXCEPT !.audioContext = TRUE]
                       ELSE audioCapture
  /\ lastOp' = Op("getAudioVisualization", "",
                  IF audioCapture.mediaStream THEN "analyser" ELSE "null", <<>>, NoMsg)
  /\ UNCHANGED <<primaryVars, audioVars, panel, acquiring, liveStreams, analyzer, discovery>>

\* ------------------------------------------- observers of the audio channel
\* Callers register any callbacks on the four lists while the channel goes
\* through its events.  The caller connects only when the channel has no
\* socket and no reconnect is pending, so one socket is alive at a time.
CallbackIds == {"a", "b"}

ObservedTexts == {TxtReceived, TxtNotJson}

Unconnected ==
  /\ reconnectTimers = 0
  /\ \A s \in SocketIds : audioSockets[s].rs = "NONE"

NextObservers ==
  \/ Registered(audioWs) < MaxObservers /\ \E cb \in CallbackIds : AudioOnMessage(cb)
  \/ Registered(audioWs) < MaxObservers /\ \E cb \in CallbackIds : AudioOnError(cb)
  \/ Registered(audioWs) < MaxObservers /\ \E cb \in CallbackIds : AudioOnConnect(cb)
  \/ Registered(audioWs) < MaxObservers /\ \E cb \in CallbackIds : AudioOnDisconnect(cb)
  \/ Unconnected /\ AudioConnect
  \/ ReconnectTimer
  \/ AudioDisconnect
  \/ \E s \in SocketIds : AwsOnOpen(s)
  \/ \E s \in SocketIds, text \in ObservedTexts : AwsOnMessage(s, text)
  \/ \E s \in SocketIds, err \in BOOLEAN : AwsOnClose(s, err)

SpecObservers == InitProgram /\ [][NextObservers]_vars

\* ------------------------------------------------------------ the services
\* The two channels and the audio capture service share no state.  A run of
\* Spec drives one of them while the others are as constructed.
PrimaryAsConstructed == InitPrimary

AudioAsConstructed == InitAudio([reconnectAttempts |-> 0])

CaptureAsConstructed == InitCapture

OnlyPrimary == AudioAsConstructed /\ CaptureAsConstructed

OnlyAudio == PrimaryAsConstructed /\ CaptureAsConstructed

OnlyCapture == PrimaryAsConstructed /\ AudioAsConstructed

Next ==
  \/ OnlyPrimary /\ Connect
  \/ OnlyPrimary /\ Disconnect
  \/ OnlyPrimary /\ \E f \in Payloads : Send(f)
  \/ OnlyPrimary /\ \E s \in SocketIds : WsOnOpen(s)
  \/ OnlyPrimary /\ \E s \in SocketIds : WsRemoteClosing(s)
  \/ OnlyPrimary /\ \E s \in SocketIds, text \in InboundTexts : WsOnMessage(s, text)
  \/ OnlyPrimary /\ \E s \in SocketIds, err \in BOOLEAN : WsOnClose(s, err)
  \/ OnlyPrimary /\ Initialize
  \/ OnlyPrimary /\ Start
  \/ OnlyPrimary /\ Stop
  \/ OnlyPrimary /\ Cleanup
  \/ OnlyPrimary /\ ResetFrameCount
  \/ OnlyPrimary /\ \E dims \in BOOLEAN, ctx \in BOOLEAN, clean \in BOOLEAN : Tick(dims, ctx, clean)
  \/ OnlyPrimary /\ \E blob \in BOOLEAN : BlobReady(blob)
  \/ OnlyAudio /\ AudioConnect
  \/ OnlyAudio /\ ReconnectTimer
  \/ OnlyAudio /\ \E f \in AudioPayloads : AudioSend(f)
  \/ OnlyAudio /\ AudioDisconnect
  \/ OnlyAudio /\ Len(audioWs.messageCallbacks) < MaxCallbacks
       /\ \E cb \in AnalyzerCallbacks : AudioOnMessage(cb)
  \/ OnlyAudio /\ \E s \in SocketIds : AwsOnOpen(s)
  \/ OnlyAudio /\ \E s \in SocketIds : AwsRemoteClosing(s)
  \/ OnlyAudio /\ \E s \in SocketIds, text \in InboundTexts : AwsOnMessage(s, text)
  \/ OnlyAudio /\ \E s \in SocketIds, err \in BOOLEAN : AwsOnClose(s, err)
  \/ OnlyCapture /\ OnData
  \/ OnlyCapture /\ OnError
  \/ OnlyCapture /\ \E mode \in {"startMicrophoneCapture", "startTabAudioCapture"} : StartCapture(mode)
  \/ OnlyCapture /\ \E granted \in BOOLEAN, setup \in {"ok", "newThrows", "startThrows"} : Acquired(granted, setup)
  \/ OnlyCapture /\ \E chunk \in BOOLEAN : DataAvailable(chunk)
  \/ OnlyCapture /\ \E chunk \in BOOLEAN : FinalData(chunk)
  \/ OnlyCapture /\ RecorderError
  \/ OnlyCapture /\ StopCapture
  \/ OnlyCapture /\ GetAudioVisualization

Spec == InitProgram /\ [][Next]_vars

\* ------------------------------------------------------ VideoStreamService
\* A media element as discovery sees it: src = its srcObject is a MediaStream;
\* capture = what its captureStream gives: "absent" (no such function),
\* "stream" (returns a stream) or "throws"
Elements == [src : BOOLEAN, capture : {"absent", "stream", "throws"}]

RECURSIVE SeqsUpTo(_, _)
SeqsUpTo(S, n) ==
  IF n = 0
    THEN {<<>>}
    ELSE LET shorter == SeqsUpTo(S, n - 1)
         IN  shorter \cup {Append(q, e) : q \in shorter, e \in S}

\* querySelectorAll("video") / querySelectorAll("audio"), in document order
Pages == SeqsUpTo(Elements, MaxElements)

NoStream == [el |-> 0, via |-> "none"]

\* the video loop without the try/catch around captureStream
RECURSIVE VideoScanNoCatch(_, _)
VideoScanNoCatch(page, i) ==
  IF i > Len(page)
    THEN [stream |-> NoStream, exc |-> FALSE]
    ELSE IF page[i].src
           THEN [stream |-> [el |-> i, via |-> "srcObject"], exc |-> FALSE]
           ELSE CASE page[i].capture = "stream" ->
                       [stream |-> [el |-> i, via |-> "captureStream"], exc |-> FALSE]
                  [] page[i].capture = "throws" ->
                       [stream |-> NoStream, exc |-> TRUE]
                  [] OTHER -> VideoScanNoCatch(page, i + 1)

\* the loop of detectAndCaptureVideoStream from element i on: the element's
\* srcObject, else its captureStream() inside try/catch, else the next one
RECURSIVE VideoScan(_, _)
VideoScan(page, i) ==
  IF i > Len(page)
    THEN [stream |-> NoStream, exc |-> FALSE]
    ELSE IF page[i].src
           THEN [stream |-> [el |-> i, via |-> "srcObject"], exc |-> FALSE]
           ELSE CASE page[i].capture = "stream" ->
                       [stream |-> [el |-> i, via |-> "captureStream"], exc |-> FALSE]
                  [] OTHER -> VideoScan(page, i + 1)

\* the loop of detectAndCaptureAudioStream: only the element's srcObject
RECURSIVE AudioScan(_, _)
AudioScan(page, i) ==
  IF i > Len(page)
    THEN [stream |-> NoStream, exc |-> FALSE]
    ELSE IF page[i].src
           THEN [stream |-> [el |-> i, via |-> "srcObject"], exc |-> FALSE]
           ELSE AudioScan(page, i + 1)

\* what either function returns for the outcome of its loop
ScanResult(page, scan, none, inactive) ==
  IF Len(page) = 0
    THEN [exc |-> FALSE,
          value |-> [success |-> FALSE, stream |-> NoStream, error |-> none]]
    ELSE IF scan.exc
           THEN [exc |-> TRUE, value |-> NoResult]
           ELSE IF scan.stream # NoStream
                  THEN [exc |-> FALSE,
                        value |-> [success |-> TRUE, stream |-> scan.stream, error |-> "none"]]
                  ELSE [exc |-> FALSE,
                        value |-> [success |-> FALSE, stream |-> NoStream, error |-> inactive]]

DetectAndCaptureVideoStream(page) ==
  ScanResult(page, VideoScan(page, 1),
             "No video elements found on this page",
             "Could not detect active video stream. Make sure a video call is playing.")

DetectAndCaptureAudioStream(page) ==
  ScanResult(page, AudioScan(page, 1),
             "No audio elements found on this page",
             "Could not detect active audio stream")

DetectVideo ==
  LET r == DetectAndCaptureVideoStream(discovery.page)
  IN  /\ discovery' = [discovery EXCEPT !.result = r.value]
      /\ lastOp' = Op("detectVideo", "", IF r.exc THEN "threw" ELSE "ok", <<>>, NoMsg)
      /\ UNCHANGED <<primaryVars, audioVars, panel, captureVars>>

DetectAudio ==
  LET r == DetectAndCaptureAudioStream(discovery.page)
  IN  /\ discovery' = [discovery EXCEPT !.result = r.value]
      /\ lastOp' = Op("detectAudio", "", IF r.exc THEN "threw" ELSE "ok", <<>>, NoMsg)
      /\ UNCHANGED <<primaryVars, audioVars, panel, captureVars>>

\* a page with any elements, before the first call
InitPages ==
  /\ InitPrimary
  /\ InitAudio([reconnectAttempts |-> 0])
  /\ InitPanel
  /\ InitCapture
  /\ \E page \in Pages : InitDiscovery(page)
  /\ lastOp = Op("init", "", "ok", <<>>, NoMsg)

NextDiscovery ==
  \/ DetectVideo
  \/ DetectAudio

SpecDiscovery == InitPages /\ [][NextDiscovery]_vars

\* ----------------------------------------------------------------- Sidebar
\* The video session: the panel's handlers drive the primary channel and the
\* frame encoder.  The close handler, the frame-count callback and the
\* message handler are the ones the mount effect registers.

\* pages the user detects on: none or one video element with a live stream
SessionPages == {<<>>, <<[src |-> TRUE, capture |-> "absent"]>>}

SessionTexts == {TxtConnected, TxtReceived, TxtReceivedTwo, TxtNotJson}

handleDetectVideoStream(page) ==
  LET r == DetectAndCaptureVideoStream(page).value
  IN  /\ panel' = IF r.success THEN [panel EXCEPT !.videoStream = TRUE] ELSE panel
      /\ lastOp' = Op("handleDetectVideoStream", "", IF r.success THEN "ok" ELSE "alert",
                      <<>>, NoMsg)
      /\ UNCHANGED <<primaryVars, audioVars, captureVars, discovery>>

\* handleStartStreaming() from initialize() on: the encoder is initialized,
\* its counter reset and started; a throw is caught and alerted
StartEncoder(fs, svc, socks, iv) ==
  FcStart([FcInitialize(fs) EXCEPT !.frameCount = 0], svc, World(socks), iv)

\* handleStartStreaming(): returns when no stream was detected; connects and
\* waits when the channel is not connected, else starts the encoder at once
handleStartStreaming ==
  IF ~panel.videoStream
    THEN /\ lastOp' = Op("handleStartStreaming", "", "alert", <<>>, NoMsg)
         /\ UNCHANGED <<primaryVars, panel>>
         /\ UNCHANGED <<audioVars, captureVars, discovery>>
    ELSE IF IsConnected(wsService, sockets)
           THEN LET r == StartEncoder(frameService, wsService, sockets, intervals)
                IN  /\ frameService' = r.fs
                    /\ sockets' = r.w.socks
                    /\ intervals' = r.iv
                    /\ panel' = IF r.res = "threw"
                                  THEN [panel EXCEPT !.wsConnected = FALSE]
                                  ELSE [panel EXCEPT !.isStreaming = TRUE]
                    /\ lastOp' = Op("handleStartStreaming", "", r.res, r.w.tx, NoMsg)
                    /\ UNCHANGED <<wsService, pendingBlobs>>
                    /\ UNCHANGED <<audioVars, captureVars, discovery>>
           ELSE /\ HasFree(sockets)
                /\ sockets' = Collect(NewSocket(sockets), FreeSlot(sockets))
                /\ wsService' = [wsService EXCEPT !.ws = FreeSlot(sockets)]
                /\ lastOp' = Op("handleStartStreaming", "", "pending", <<>>, NoMsg)
                /\ UNCHANGED <<frameService, intervals, pendingBlobs, panel>>
                /\ UNCHANGED <<audioVars, captureVars, discovery>>

\* ws.onopen resolves the connect() that handleStartStreaming awaits, and
\* the handler goes on: setWsConnected(true), then the encoder is started
SessionOnOpen(s) ==
  LET opened == [sockets EXCEPT ![s].rs = "OPEN"]
      r      == StartEncoder(frameService, wsService, opened, intervals)
  IN  /\ sockets[s].rs = "CONNECTING"
      /\ frameService' = r.fs
      /\ sockets' = r.w.socks
      /\ intervals' = r.iv
      /\ panel' = IF r.res = "threw"
                    THEN [panel EXCEPT !.wsConnected = FALSE]
                    ELSE [panel EXCEPT !.wsConnected = TRUE, !.isStreaming = TRUE]
      /\ lastOp' = Op("session.onopen", IF s = wsService.ws THEN "current" ELSE "discarded",
                      r.res, r.w.tx, NoMsg)
      /\ UNCHANGED <<wsService, pendingBlobs>>
      /\ UNCHANGED <<audioVars, captureVars, discovery>>

\* ws.onerror (err; always for a socket that never opened) and ws.onclose:
\* the error handler, the rejected connect() and the close handler all
\* clear wsConnected; the close handler clears isStreaming and stops the
\* encoder.  arg: the socket is the channel's current one, one that a stop
\* of the session closed, or one discarded otherwise
SessionOnClose(s, err) ==
  LET closed == [sockets EXCEPT ![s].rs = "CLOSED"]
      r      == FcStop(frameService, wsService, World(closed), intervals)
  IN  /\ sockets[s].rs \in {"CONNECTING", "OPEN", "CLOSING"}
      /\ sockets[s].rs = "CONNECTING" => err
      /\ frameService' = r.fs
      /\ sockets' = Collect(r.w.socks, wsService.ws)
      /\ intervals' = r.iv
      /\ panel' = [panel EXCEPT !.wsConnected = FALSE, !.isStreaming = FALSE]
      /\ lastOp' = Op("session.onclose",
                      IF s = wsService.ws THEN "current"
                        ELSE IF sockets[s].req THEN "stopped" ELSE "discarded",
                      IF err THEN "rejected" ELSE "ok", r.w.tx, NoMsg)
      /\ UNCHANGED <<wsService, pendingBlobs>>
      /\ UNCHANGED <<audioVars, captureVars, discovery>>

\* a stop handler that disconnects the channel before it stops the encoder
StopSessionChannelFirst(name, capture) ==
  LET r2 == WsDisconnect(wsService, World(sockets))
      r1 == FcStop(frameService, r2.svc, r2.w, intervals)
  IN  /\ frameService' = r1.fs
      /\ intervals' = r1.iv
      /\ wsService' = r2.svc
      /\ sockets' = Collect(r1.w.socks, r2.svc.ws)
      /\ panel' = [panel EXCEPT !.isStreaming = FALSE, !.wsConnected = FALSE,
                                !.videoStream = IF capture THEN FALSE ELSE @]
      /\ lastOp' = Op(name, "", Outcome(r1.w), r1.w.tx, NoMsg)
      /\ UNCHANGED pendingBlobs
      /\ UNCHANGED <<audioVars, captureVars, discovery>>

\* handleStopStreaming() / handleStopCapture(): encoder stop(), channel
\* disconnect(), then the state setters (capture: the stream is dropped too)
StopSession(name, capture) ==
  LET r1 == FcStop(frameService, wsService, World(sockets), intervals)
      r2 == WsDisconnect(wsService, r1.w)
  IN  /\ frameService' = r1.fs
      /\ intervals' = r1.iv
      /\ wsService' = r2.svc
      /\ sockets' = Collect(r2.w.socks, r2.svc.ws)
      /\ panel' = [panel EXCEPT !.isStreaming = FALSE, !.wsConnected = FALSE,
                                !.videoStream = IF capture THEN FALSE ELSE @]
      /\ lastOp' = Op(name, "", Outcome(r2.w), r2.w.tx, NoMsg)
      /\ UNCHANGED pendingBlobs
      /\ UNCHANGED <<audioVars, captureVars, discovery>>

handleStopStreaming == StopSession("handleStopStreaming", FALSE)

handleStopCapture == StopSession("handleStopCapture", TRUE)

\* a message handler that leaves the frame-count state to the encoder
PanelOnMessageIgnored(p, r) == p

\* the message handler of the panel: a received status with a frame count
\* that is not zero sets the frame-count state
PanelOnMessage(p, r) ==
  IF /\ r.res = "delivered"
     /\ r.rx.status = "received"
     /\ "frame_count" \in DOMAIN r.rx
     /\ r.rx.frame_count # 0
    THEN [p EXCEPT !.frameCount = r.rx.frame_count]
    ELSE p

SessionOnMessage(s, text) ==
  LET r == WsReceive(wsService, text)
  IN  /\ sockets[s].rs \in {"OPEN", "CLOSING"}
      /\ panel' = PanelOnMessage(panel, r)
      /\ lastOp' = Op("session.onmessage", text, r.res, <<>>, r.rx)
      /\ UNCHANGED primaryVars
      /\ UNCHANGED <<audioVars, captureVars, discovery>>

\* a pending toBlob callback runs; after a send the frame-count callback
\* sets the frame-count state to the encoder's counter
SessionBlobReady(blob) ==
  LET r == FcBlobCallback(frameService, wsService, World(sockets), blob)
  IN  /\ pendingBlobs # <<>>
      /\ r.fs.frameCount <= MaxFrames
      /\ \E i \in 1..Len(pendingBlobs) :
           pendingBlobs' = Completed(pendingBlobs, i, r.w.tx # <<>>)
      /\ frameService' = r.fs
      /\ sockets' = r.w.socks
      /\ panel' = IF r.w.tx # <<>>
                    THEN [panel EXCEPT !.frameCount = r.fs.frameCount]
                    ELSE panel
      /\ lastOp' = Op("session.toBlob", "", Outcome(r.w), r.w.tx, NoMsg)
      /\ UNCHANGED <<wsService, intervals>>
      /\ UNCHANGED <<audioVars, captureVars, discovery>>

\* which buttons the panel renders: detect without a stream, stop capture
\* with one, start while not streaming, stop streaming while streaming
CanDetect == ~panel.videoStream

CanStopCapture == panel.videoStream

CanStartStreaming == panel.videoStream /\ ~panel.isStreaming

CanStopStreaming == panel.videoStream /\ panel.isStreaming

NextSession ==
  \/ CanDetect /\ \E page \in SessionPages : handleDetectVideoStream(page)
  \/ CanStartStreaming /\ handleStartStreaming
  \/ CanStopStreaming /\ handleStopStreaming
  \/ CanStopCapture /\ handleStopCapture
  \/ \E s \in SocketIds : SessionOnOpen(s)
  \/ \E s \in SocketIds : WsRemoteClosing(s)
  \/ \E s \in SocketIds, text \in SessionTexts : SessionOnMessage(s, text)
  \/ \E s \in SocketIds, err \in BOOLEAN : SessionOnClose(s, err)
  \/ \E dims \in BOOLEAN, ctx \in BOOLEAN, clean \in BOOLEAN : Tick(dims, ctx, clean)
  \/ \E blob \in BOOLEAN : SessionBlobReady(blob)

SpecSession == InitProgram /\ [][NextSession]_vars

\* ----------------------------------------------------------- AudioAnalyzer
\* The audio panel: its handlers drive the audio channel and the audio
\* capture service.  At most one startRecording awaits its connection and
\* at most MaxAcquiring await their media stream.
\* the server messages the panel tells apart: an alert, a stop with and
\* without the final analysis, a receipt with a full buffer
AnalyzerTexts ==
  { <<"{", "status", ":", "alert", "}">>,
    <<"{", "status", ":", "stopped", ",", "final_analysis", ":", "result", "}">>,
    <<"{", "status", ":", "stopped", "}">>,
    <<"{", "status", ":", "received", ",", "buffer_size", ":", "80000", "}">> }

\* the start button is rendered (and is never disabled while it is)
CanStartRecording == analyzer.visible /\ ~analyzer.isRecording /\ ~analyzer.isAnalyzing

\* the stop button is rendered
CanStopRecording == analyzer.visible /\ analyzer.isRecording /\ ~analyzer.isAnalyzing

\* the message callback of the panel
AnalyzerOnMessage(an, rx) ==
  CASE rx.status = "alert" -> [an EXCEPT !.isAnalyzing = FALSE]
    [] rx.status = "stopped" /\ "final_analysis" \in DOMAIN rx ->
         [an EXCEPT !.isAnalyzing = FALSE]
    [] rx.status = "received" /\ "buffer_size" \in DOMAIN rx /\ rx.buffer_size = "80000" ->
         [an EXCEPT !.isAnalyzing = TRUE]
    [] OTHER -> an

\* stopRecording(): setIsAnalyzing(true), stopCapture(), the timers are
\* cleared, the stop control message, setIsRecording(false)
AnalyzerStop(an, c, a, w) ==
  LET r    == AscStopCapture(c)
      sent == AwsSend(a, w, "stop")
  IN  [an |-> IF sent.exc
                THEN [an EXCEPT !.isAnalyzing = TRUE, !.autoStop = FALSE]
                ELSE [an EXCEPT !.isAnalyzing = TRUE, !.autoStop = FALSE,
                                !.isRecording = FALSE],
       c |-> r.c, w |-> sent, stopped |-> r.stopped]

\* startRecording() from onData(...) to the await of the media stream
BeginCapture(c) == [c EXCEPT !.onDataCallback = TRUE, !.onErrorCallback = TRUE]

\* the Sidebar renders the panel only while it is visible itself, so showing
\* mounts a new instance with its initial state, whose effect registers its
\* four callbacks.  A new instance is followed once the start and the
\* auto-stop timeout of the one before are done
AnalyzerShow ==
  /\ ~analyzer.visible
  /\ analyzer.awaiting = 0 /\ acquiring = 0 /\ ~analyzer.autoStop
  /\ Len(audioWs.messageCallbacks) < MaxObservers
  /\ analyzer' = [InitAnalyzer EXCEPT !.visible = TRUE,
                                      !.startedOn = analyzer.startedOn]
  /\ audioWs' = [audioWs EXCEPT !.connectCallbacks = AwsRegister(@, "analyzer"),
                                !.disconnectCallbacks = AwsRegister(@, "analyzer"),
                                !.messageCallbacks = AwsRegister(@, "analyzer"),
                                !.errorCallbacks = AwsRegister(@, "analyzer")]
  /\ lastOp' = Op("analyzer.show", "", "ok", <<>>, NoMsg)
  /\ UNCHANGED <<audioSockets, reconnectTimers, sinceOpen, audioCapture, acquiring, liveStreams>>
  /\ UNCHANGED <<primaryVars, panel, discovery>>

\* startRecording() up to its first await: the connect when the panel is not
\* connected, else the media stream
startRecording ==
  /\ analyzer.awaiting = 0
  /\ acquiring < MaxAcquiring
  /\ IF ~analyzer.isConnected
       THEN LET r == AwsConnect(audioWs, audioSockets)
            IN  /\ HasFree(audioSockets)
                /\ audioWs' = r.a
                /\ audioSockets' = Collect(r.socks, r.a.ws)
                /\ analyzer' = [analyzer EXCEPT !.error = FALSE, !.awaiting = r.a.ws]
                /\ lastOp' = Op("startRecording", "", "connecting", <<>>, NoMsg)
                /\ UNCHANGED <<audioCapture, acquiring>>
       ELSE /\ audioCapture' = BeginCapture(audioCapture)
            /\ acquiring' = acquiring + 1
            /\ analyzer' = [analyzer EXCEPT !.error = FALSE]
            /\ lastOp' = Op("startRecording", "", "acquiring", <<>>, NoMsg)
            /\ UNCHANGED <<audioWs, audioSockets>>
  /\ UNCHANGED <<reconnectTimers, sinceOpen, liveStreams>>
  /\ UNCHANGED <<primaryVars, panel, discovery>>

\* ws.onopen: the connect callback sets isConnected; a startRecording that
\* awaits this socket goes on to the media stream
AnalyzerOnOpen(s) ==
  LET told == IF audioWs.connectCallbacks # <<>>
                THEN [analyzer EXCEPT !.isConnected = TRUE]
                ELSE analyzer
  IN  /\ audioSockets[s].rs = "CONNECTING"
      /\ analyzer.awaiting = s => acquiring < MaxAcquiring
      /\ audioSockets' = [audioSockets EXCEPT ![s].rs = "OPEN"]
      /\ audioWs' = AwsOpened(audioWs)
      /\ sinceOpen' = NoneSinceOpen
      /\ IF analyzer.awaiting = s
           THEN /\ analyzer' = [told EXCEPT !.awaiting = 0]
                /\ audioCapture' = BeginCapture(audioCapture)
                /\ acquiring' = acquiring + 1
           ELSE /\ analyzer' = told
                /\ UNCHANGED <<audioCapture, acquiring>>
      /\ lastOp' = OpCalls("analyzer.onopen", "", "resolved", <<>>, NoMsg,
                           ForEach(audioWs.connectCallbacks, "connect"))
      /\ UNCHANGED <<reconnectTimers, liveStreams>>
      /\ UNCHANGED <<primaryVars, panel, discovery>>

\* ws.onerror (err; always for a socket that never opened) and ws.onclose:
\* the error callback sets the error, the disconnect callback clears
\* isConnected, and a startRecording that awaits this socket ends in its
\* catch block
AnalyzerOnClose(s, err) ==
  LET r     == AwsClosed(audioWs)
      told1 == IF err /\ audioWs.errorCallbacks # <<>>
                 THEN [analyzer EXCEPT !.error = TRUE]
                 ELSE analyzer
      told2 == IF audioWs.disconnectCallbacks # <<>>
                 THEN [told1 EXCEPT !.isConnected = FALSE]
                 ELSE told1
  IN  /\ audioSockets[s].rs \in {"CONNECTING", "OPEN", "CLOSING"}
      /\ audioSockets[s].rs = "CONNECTING" => err
      /\ r.schedule => reconnectTimers < MaxTimers
      /\ audioSockets' = Collect([audioSockets EXCEPT ![s].rs = "CLOSED"], audioWs.ws)
      /\ audioWs' = r.a
      /\ reconnectTimers' = IF r.schedule THEN reconnectTimers + 1 ELSE reconnectTimers
      /\ sinceOpen' = [closes |-> Min(sinceOpen.closes + 1, audioWs.reconnectAttempts + 1),
                       scheduled |-> IF r.schedule THEN sinceOpen.scheduled + 1
                                                   ELSE sinceOpen.scheduled,
                       explicit |-> sinceOpen.explicit \/ audioSockets[s].req]
      /\ analyzer' = IF analyzer.awaiting = s
                       THEN [told2 EXCEPT !.awaiting = 0, !.error = TRUE,
                                          !.autoStop = FALSE, !.startedOn = @ \ {s}]
                       ELSE [told2 EXCEPT !.startedOn = @ \ {s}]
      /\ lastOp' = OpCalls("analyzer.onclose", "",
                           IF err THEN "rejected" ELSE "ok", <<>>, NoMsg,
                           (IF err THEN ForEach(audioWs.errorCallbacks, "error") ELSE <<>>)
                             \o ForEach(audioWs.disconnectCallbacks, "disconnect"))
      /\ UNCHANGED <<audioCapture, acquiring, liveStreams>>
      /\ UNCHANGED <<primaryVars, panel, discovery>>

\* the media stream of the startRecording in progress arrives or is refused.
\* A failure is handed to the service's error callback, which sets the error
\* and calls stopRecording(), and is rethrown into the catch block of
\* startRecording; else the start control message is sent, isRecording is
\* set and the auto-stop timeout is started
AnalyzerAcquired(granted, setup) ==
  LET held == [audioCapture EXCEPT !.mediaStream = TRUE]
      r    == IF granted
                THEN AscSetupMediaRecorder(held, setup)
                ELSE [c |-> audioCapture, exc |-> TRUE]
      got  == IF granted THEN 1 ELSE 0
      st   == AnalyzerStop(analyzer, r.c, audioWs, World(audioSockets))
      sent == AwsSend(audioWs, World(audioSockets), "start")
  IN  /\ acquiring > 0
      /\ granted => liveStreams < MaxStreams
      /\ acquiring' = acquiring - 1
      /\ IF r.exc
           THEN /\ audioCapture' = st.c
                /\ liveStreams' = liveStreams + got - st.stopped
                /\ audioSockets' = st.w.socks
                /\ analyzer' = [st.an EXCEPT !.error = TRUE, !.autoStop = FALSE]
                /\ lastOp' = Op("analyzer.acquired", IF granted THEN "setup" ELSE "denied",
                             "rejected", st.w.tx, NoMsg)
           ELSE /\ audioCapture' = r.c
                /\ liveStreams' = liveStreams + got
                /\ audioSockets' = sent.socks
                /\ analyzer' = IF sent.exc
                                 THEN [analyzer EXCEPT !.error = TRUE, !.autoStop = FALSE]
                                 ELSE [analyzer EXCEPT
                                         !.isRecording = TRUE, !.autoStop = TRUE,
                                         !.startedOn = @ \cup
                                           {sent.tx[i].s : i \in
                                              {j \in 1..Len(sent.tx) :
                                                 sent.tx[j].res = "sent"}}]
                /\ lastOp' = Op("analyzer.acquired", "granted", Outcome(sent), sent.tx, NoMsg)
      /\ UNCHANGED <<audioWs, reconnectTimers, sinceOpen>>
      /\ UNCHANGED <<primaryVars, panel, discovery>>

\* what ondataavailable does with an event: the data callback registered by
\* startRecording hands the chunk to sendAudioChunk
AnalyzerChunk(c, a, w, chunk) ==
  IF AscDataAvailable(c, chunk) = "delivered"
    THEN AwsSend(a, w, "bin")
    ELSE w

\* a dataavailable event of the running recorder
AnalyzerDataAvailable(chunk) ==
  LET w == AnalyzerChunk(audioCapture, audioWs, World(audioSockets), chunk)
  IN  /\ audioCapture.mediaRecorder = "recording"
      /\ audioSockets' = w.socks
      /\ lastOp' = Op("analyzer.dataavailable", "", Outcome(w), w.tx, NoMsg)
      /\ UNCHANGED <<audioWs, reconnectTimers, sinceOpen, captureVars>>
      /\ UNCHANGED <<primaryVars, panel, discovery>>

\* the last dataavailable event of a recorder that was stopped
AnalyzerFinalData(chunk) ==
  LET w == AnalyzerChunk(audioCapture, audioWs, World(audioSockets), chunk)
  IN  /\ audioCapture.mediaRecorder = "flushing"
      /\ audioCapture' = [audioCapture EXCEPT !.mediaRecorder = "inactive"]
      /\ audioSockets' = w.socks
      /\ lastOp' = Op("analyzer.dataavailable", "final", Outcome(w), w.tx, NoMsg)
      /\ UNCHANGED <<audioWs, reconnectTimers, sinceOpen, acquiring, liveStreams, analyzer>>
      /\ UNCHANGED <<primaryVars, panel, discovery>>

\* stopRecording() run by a handler; how says which one
AnalyzerStopBy(how, an, c) ==
  LET st == AnalyzerStop(an, c, audioWs, World(audioSockets))
  IN  /\ audioCapture' = st.c
      /\ liveStreams' = liveStreams - st.stopped
      /\ audioSockets' = st.w.socks
      /\ analyzer' = st.an
      /\ lastOp' = Op("stopRecording", how, Outcome(st.w), st.w.tx, NoMsg)
      /\ UNCHANGED <<audioWs, reconnectTimers, sinceOpen, acquiring>>
      /\ UNCHANGED <<primaryVars, panel, discovery>>

\* the stop button
stopRecording == AnalyzerStopBy("button", analyzer, audioCapture)

\* the auto-stop timeout runs
AnalyzerAutoStop ==
  /\ analyzer.autoStop
  /\ AnalyzerStopBy("timeout", analyzer, audioCapture)

\* the recorder fails: it goes inactive, and its onerror hands the error to
\* the error callback, which sets the error and calls stopRecording()
AnalyzerRecorderError ==
  /\ audioCapture.mediaRecorder = "recording"
  /\ AnalyzerStopBy("error", [analyzer EXCEPT !.error = TRUE],
                    [audioCapture EXCEPT !.mediaRecorder = "inactive"])

\* the panel is hidden: the cleanup of its effect calls stopRecording() and
\* the instance is unmounted, its state gone with it
AnalyzerHide ==
  LET st == AnalyzerStop(analyzer, audioCapture, audioWs, World(audioSockets))
  IN  /\ analyzer.visible
      /\ audioCapture' = st.c
      /\ liveStreams' = liveStreams - st.stopped
      /\ audioSockets' = st.w.socks
      /\ analyzer' = [InitAnalyzer EXCEPT !.awaiting = analyzer.awaiting,
                                          !.startedOn = analyzer.startedOn]
      /\ lastOp' = Op("stopRecording", "hide", Outcome(st.w), st.w.tx, NoMsg)
      /\ UNCHANGED <<audioWs, reconnectTimers, sinceOpen, acquiring>>
      /\ UNCHANGED <<primaryVars, panel, discovery>>

\* ws.onmessage: the message callback gets the parsed message
AnalyzerOnChannelMessage(s, text) ==
  LET r == AwsReceive(audioWs, text)
  IN  /\ audioSockets[s].rs \in {"OPEN", "CLOSING"}
      /\ analyzer' = IF r.res = "delivered"
                       THEN AnalyzerOnMessage(analyzer, r.rx)
                       ELSE analyzer
      /\ lastOp' = OpCalls("analyzer.onmessage", text, r.res, <<>>, r.rx, r.calls)
      /\ UNCHANGED <<audioWs, audioSockets, reconnectTimers, sinceOpen,
                     audioCapture, acquiring, liveStreams>>
      /\ UNCHANGED <<primaryVars, panel, discovery>>

NextAnalyzer ==
  \/ AnalyzerShow
  \/ AnalyzerHide
  \/ CanStartRecording /\ startRecording
  \/ CanStopRecording /\ stopRecording
  \/ AnalyzerAutoStop
  \/ \E granted \in BOOLEAN, setup \in {"ok", "newThrows", "startThrows"} :
       AnalyzerAcquired(granted, setup)
  \/ \E chunk \in BOOLEAN : AnalyzerDataAvailable(chunk)
  \/ \E chunk \in BOOLEAN : AnalyzerFinalData(chunk)
  \/ AnalyzerRecorderError
  \/ ReconnectTimer
  \/ \E s \in SocketIds : AnalyzerOnOpen(s)
  \/ \E s \in SocketIds : AwsRemoteClosing(s)
  \/ \E s \in SocketIds, text \in AnalyzerTexts : AnalyzerOnChannelMessage(s, text)
  \/ \E s \in SocketIds, err \in BOOLEAN : AnalyzerOnClose(s, err)

SpecAnalyzer == InitProgram /\ [][NextAnalyzer]_vars

\* ---------------------------------------------------- codec selection
\* getSupportedMimeType() against every answer of the support probe:
\* supported is the set of types MediaRecorder.isTypeSupported accepts.

\* the fallback returned without any probe
getDefaultMimeType(supported) == "audio/webm"

getSupportedMimeType(supported) ==
  LET types == <<"audio/webm;codecs=opus", "audio/webm",
                 "audio/ogg;codecs=opus", "audio/mp4">>
      RECURSIVE loop(_)
      loop(i) == IF i > Len(types) THEN "audio/webm"
                 ELSE IF types[i] \in supported THEN types[i]
                 ELSE loop(i + 1)
  IN  loop(1)

\* setupMediaRecorder() asks for the type on a platform whose probe accepts
\* exactly the types in supported
SelectCodec(supported) ==
  /\ lastOp' = Op("getSupportedMimeType", supported,
                  getSupportedMimeType(supported), <<>>, NoMsg)
  /\ UNCHANGED <<primaryVars, audioVars, otherVars>>

SpecCodec ==
  /\ InitProgram
  /\ [][\E supported \in SUBSET {"audio/webm;codecs=opus", "audio/webm",
                                  "audio/ogg;codecs=opus", "audio/mp4",
                                  "audio/wav", "audio/mpeg", "video/webm"} :
          SelectCodec(supported)]_vars

\* ================================================================= claims
\* every frame handed to a socket in the last step was accepted by it
AllSent(tx) == \A i \in DOMAIN tx : tx[i].res = "sent"

\* C1: the primary channel hands a payload to its socket only while it holds
\* a socket in state OPEN: in every step every frame handed over is accepted
\* by an OPEN socket, and send() in any other state returns normally having
\* handed over nothing.
C1_SendOnlyWhileOpen ==
  /\ AllSent(lastOp.tx)
  /\ lastOp.op = "send" =>
       /\ lastOp.res = "ok"
       /\ IF IsConnected(wsService, sockets)
            THEN Len(lastOp.tx) = 1 /\ lastOp.tx[1].s = wsService.ws
            ELSE lastOp.tx = <<>>

\* send() was called while the socket was still CONNECTING and dropped the payload
C1_Witness ==
  /\ lastOp.op = "send"
  /\ lastOp.tx = <<>>
  /\ wsService.ws # 0
  /\ sockets[wsService.ws].rs = "CONNECTING"

\* C2 (as claimed): the close event of a socket that disconnect() closed
\* schedules no reconnect on the audio channel.
C2_NoReconnectAfterDisconnect ==
  [][(lastOp'.op = "audio.onclose" /\ lastOp'.res = "requested")
       => reconnectTimers' = reconnectTimers]_vars

C4_ReconnectStep ==
  [][/\ lastOp'.op = "audio.onclose" =>
          IF audioWs.currentAttempt < audioWs.reconnectAttempts
            THEN /\ audioWs'.currentAttempt = audioWs.currentAttempt + 1
                 /\ reconnectTimers' = reconnectTimers + 1
            ELSE /\ audioWs'.currentAttempt = audioWs.currentAttempt
                 /\ reconnectTimers' = reconnectTimers
     /\ lastOp'.op = "audio.onopen" => audioWs'.currentAttempt = 0
     /\ audioWs'.currentAttempt \in 0..audioWs'.reconnectAttempts]_vars

\* an open event has reset the counter while a scheduled reconnect is pending
C4_Witness ==
  /\ lastOp.op = "audio.onopen"
  /\ audioWs.currentAttempt = 0
  /\ reconnectTimers > 0

\* C5: connect() on the primary channel while its socket is open resolves at
\* once, constructs no socket and keeps the socket it holds.
C5_ConnectWhileOpen ==
  [][(lastOp'.op = "connect" /\ IsConnected(wsService, sockets))
       => /\ lastOp'.res = "resolved"
          /\ sockets' = sockets
          /\ wsService' = wsService]_vars

\* connect() has just been called on an open channel
C5_Witness ==
  /\ lastOp.op = "connect"
  /\ lastOp.res = "resolved"
  /\ IsConnected(wsService, sockets)

\* C6 (as claimed): connect() on the audio channel, by the caller or by a
\* reconnect timeout, while the channel's socket is open constructs no socket
\* and keeps the socket it holds.
C6_AudioConnectWhileOpen ==
  [][(/\ lastOp'.op \in {"audio.connect", "audio.reconnect"}
      /\ audioWs.ws # 0
      /\ audioSockets[audioWs.ws].rs = "OPEN")
       => /\ audioSockets' = audioSockets
          /\ audioWs'.ws = audioWs.ws]_vars

\* C7 (as claimed): sendAudioChunk and sendControlMessage never throw and
\* hand a payload only to an open socket.
C7_AudioSendOnlyWhileOpen ==
  lastOp.op = "audio.send" => lastOp.res = "ok" /\ AllSent(lastOp.tx)

\* C8: disconnect() on the primary channel: with an open socket the stop
\* message is accepted by the socket and then the socket is closing; in every
\* case the channel holds no socket afterwards, and with no socket held
\* nothing is sent and nothing changes.
C8_Disconnect ==
  [][lastOp'.op = "disconnect" =>
       /\ wsService'.ws = 0
       /\ lastOp'.res = "ok"
       /\ IF IsConnected(wsService, sockets)
            THEN /\ lastOp'.tx = <<[s |-> wsService.ws, f |-> "stop", res |-> "sent"]>>
                 /\ sockets'[wsService.ws] = [rs |-> "CLOSING", req |-> TRUE]
            ELSE /\ lastOp'.tx = <<>>
                 /\ \A s \in SocketIds : sockets'[s].rs \in {sockets[s].rs, "NONE"}
       /\ wsService.ws = 0 => sockets' = sockets /\ wsService' = wsService]_vars

\* a second disconnect() after one that closed an open socket
C8_Witness ==
  /\ lastOp.op = "disconnect"
  /\ lastOp.tx = <<>>
  /\ wsService.ws = 0
  /\ \E s \in SocketIds : sockets[s] = [rs |-> "CLOSING", req |-> TRUE]
  /\ \A s \in SocketIds : sockets[s].rs \in {"NONE", "CLOSING"}

\* the inbound texts that are valid JSON, with the value each stands for
Decoded(text) ==
  CASE text = TxtConnected -> [status |-> "connected"]
    [] text = TxtReceived  -> [status |-> "received", frame_count |-> 1]
    [] OTHER               -> NoMsg

ValidTexts == {TxtConnected, TxtReceived}

\* what the receive path must do with text when observers are registered
Received(text, op, observed) ==
  IF text \in ValidTexts
    THEN observed => op.res = "delivered" /\ op.rx = Decoded(text)
    ELSE op.res = "caught" /\ op.rx = NoMsg

\* C9: on both channels a text frame that is not valid JSON is discarded: no
\* observer is called, nothing is thrown and the channel's state is as
\* before; a valid frame reaches the registered observers whatever frames
\* came before it.
C9_MalformedDiscarded ==
  [][/\ lastOp'.op = "onmessage" =>
          /\ Received(lastOp'.arg, lastOp', wsService.messageHandler)
          /\ wsService' = wsService /\ sockets' = sockets
     /\ lastOp'.op = "audio.onmessage" =>
          /\ Received(lastOp'.arg, lastOp', audioWs.messageCallbacks # <<>>)
          /\ audioWs' = audioWs /\ audioSockets' = audioSockets]_vars

\* the audio channel has just discarded a malformed frame and is still open
C9_Witness ==
  /\ lastOp.op = "audio.onmessage"
  /\ lastOp.res = "caught"
  /\ audioWs.messageCallbacks # <<>>
  /\ audioWs.ws # 0
  /\ audioSockets[audioWs.ws].rs = "OPEN"

\* C10 (as claimed): while the frame encoder is stopped (no interval timer
\* since the last stop()), a toBlob callback hands no frame to the channel.
C10_NoFrameAfterStop ==
  [][(lastOp'.op = "toBlob" /\ frameService.intervalId = 0)
       => lastOp'.tx = <<>>]_vars

\* C12: start() while the frame encoder is running is a no-op (no timer is
\* created, no start message is sent, nothing changes), and no step leaves
\* more than one interval timer of the encoder alive.
C12_StartIdempotent ==
  [][/\ (lastOp'.op = "start" /\ frameService.intervalId # 0) =>
          /\ lastOp'.res = "noop"
          /\ lastOp'.tx = <<>>
          /\ intervals' = intervals
          /\ frameService' = frameService
          /\ sockets' = sockets
     /\ intervals' <= 1
     /\ intervals' = (IF frameService'.intervalId # 0 THEN 1 ELSE 0)]_vars

\* start() has just been called on a running encoder
C12_Witness ==
  /\ lastOp.op = "start"
  /\ lastOp.res = "noop"
  /\ frameService.intervalId # 0
  /\ intervals = 1

Matches(page, video, i) ==
  page[i].src \/ (video /\ page[i].capture = "stream")

\* the first such element in document order (0: there is none)
FirstMatch(page, video) ==
  IF \E i \in 1..Len(page) : Matches(page, video, i)
    THEN CHOOSE i \in 1..Len(page) :
           /\ Matches(page, video, i)
           /\ \A j \in 1..(i - 1) : ~Matches(page, video, j)
    ELSE 0

\* C17: discovery never throws; it returns the stream of the first element in
\* document order that yields one (an element whose captureStream throws is
\* passed over), and when no element yields one it returns success false and
\* no stream, with one reason for a page without elements and another for a
\* page whose elements yield none.
C17_FirstMatch ==
  lastOp.op \in {"detectVideo", "detectAudio"} =>
    LET video == lastOp.op = "detectVideo"
        m     == FirstMatch(discovery.page, video)
        r     == discovery.result
    IN  /\ lastOp.res = "ok"
        /\ IF m # 0
             THEN r.success /\ r.stream.el = m /\ r.error = "none"
             ELSE /\ ~r.success
                  /\ r.stream = NoStream
                  /\ r.error =
                       IF Len(discovery.page) = 0
                         THEN IF video THEN "No video elements found on this page"
                                       ELSE "No audio elements found on this page"
                         ELSE IF video
                                THEN "Could not detect active video stream. Make sure a video call is playing."
                                ELSE "Could not detect active audio stream"

\* the first video element's captureStream threw and the second gave a stream
C17_Witness ==
  /\ lastOp.op = "detectVideo"
  /\ Len(discovery.page) >= 2
  /\ ~discovery.page[1].src
  /\ discovery.page[1].capture = "throws"
  /\ discovery.result.success
  /\ discovery.result.stream.el = 2

\* C18 (as claimed): when some element of the page has a live stream as its
\* source, discovery returns such a live source; a stream derived through
\* captureStream is returned only when no element has one.
C18_PrefersLiveSource ==
  lastOp.op \in {"detectVideo", "detectAudio"} =>
    LET live == \E i \in 1..Len(discovery.page) : discovery.page[i].src
    IN  /\ live => discovery.result.stream.via = "srcObject"
        /\ discovery.result.stream.via = "captureStream" => ~live

\* C14 (as claimed): setting up the recorder while no data callback is
\* registered fails, and no dataavailable event that carries data is dropped.
C14_DataCallbackRequired ==
  [][/\ (lastOp'.op = "acquired" /\ ~audioCapture.onDataCallback) =>
          (lastOp'.res = "rejected" /\ audioCapture'.mediaRecorder # "recording")
     /\ (lastOp'.op = "dataavailable" /\ lastOp'.arg = "chunk") =>
          lastOp'.res = "delivered"]_vars

\* C15: stop() of the frame encoder and stopCapture() of the audio capture
\* service return normally in every state, and leave no interval timer, no
\* running recorder and isActive() false.
C15_StopIsSafe ==
  [][/\ lastOp'.op = "stop" =>
          /\ lastOp'.res = "ok"
          /\ frameService'.intervalId = 0
          /\ intervals' = 0
     /\ lastOp'.op = "stopCapture" =>
          /\ lastOp'.res = "ok"
          /\ ~audioCapture'.isRecording
          /\ audioCapture'.mediaRecorder # "recording"
          /\ ~audioCapture'.mediaStream]_vars

\* stopCapture() has just been called on a service whose recorder had failed
C15_Witness ==
  /\ lastOp.op = "stopCapture"
  /\ lastOp.arg = "failed"
  /\ lastOp.res = "ok"
  /\ ~audioCapture.isRecording

\* C11 (as claimed): when the video session's stop handler returns, no
\* interval timer of the session is left and no socket of its channel is
\* open or still connecting.
C11_StopQuiesces ==
  [][lastOp'.op \in {"handleStopStreaming", "handleStopCapture"} =>
       /\ intervals' = 0
       /\ \A s \in SocketIds : sockets'[s].rs \notin {"CONNECTING", "OPEN"}]_vars

\* C19: a server message {status: received, frame_count: N} with N >= 1
\* handled by the panel leaves its frame-count state at N, whatever the
\* encoder has counted.
C19_FrameCountRoundTrip ==
  [][\A n \in 1..2 :
       (/\ lastOp'.op = "session.onmessage"
        /\ lastOp'.arg = <<"{", "status", ":", "received", ",", "frame_count", ":",
                           IF n = 1 THEN "1" ELSE "2", "}">>)
         => panel'.frameCount = n]_vars

\* after a start message and one frame were sent on the open channel, the
\* server's count 2 has replaced the encoder's count 1
C19_Witness ==
  /\ lastOp.op = "session.onmessage"
  /\ lastOp.rx = [status |-> "received", frame_count |-> 2]
  /\ panel.frameCount = 2
  /\ panel.isStreaming
  /\ frameService.frameCount = 1
  /\ IsConnected(wsService, sockets)

\* C20 (as claimed): a session started again after a stop and now Streaming
\* stays so, with its timer running, its counter as it was and nothing sent,
\* across the close event of the socket that the stop closed.
C20_RestartUndisturbed ==
  [][(/\ lastOp'.op = "session.onclose"
      /\ lastOp'.arg = "stopped"
      /\ panel.isStreaming
      /\ intervals = 1)
       => /\ panel'.isStreaming
          /\ intervals' = 1
          /\ frameService'.frameCount = frameService.frameCount
          /\ lastOp'.tx = <<>>]_vars

\* the calls are one per callback of the list, in the order of the list
CalledInOrder(calls, callbacks, list) ==
  /\ Len(calls) = Len(callbacks)
  /\ \A i \in 1..Len(callbacks) : calls[i] = [list |-> list, cb |-> callbacks[i]]

\* the list has the callback added at its end and every earlier entry kept
Added(new, old, cb) ==
  /\ Len(new) = Len(old) + 1
  /\ new[Len(new)] = cb
  /\ \A i \in 1..Len(old) : new[i] = old[i]

LiveSockets == {s \in SocketIds : sockets[s].rs \in {"CONNECTING", "OPEN"}}

\* C21: at most one capture session is active per panel: under every
\* interleaving of detect, start and stop requests at most one frame timer is
\* running and at most one socket of the primary channel is connecting or open.
C21_OneSession ==
  /\ intervals <= 1
  /\ Cardinality(LiveSockets) <= 1

\* a socket of the primary channel is constructed in this step
SocketCreated == \E s \in SocketIds : sockets[s].rs = "NONE" /\ sockets'[s].rs = "CONNECTING"

\* the close event just handled was of the socket the channel holds, which
\* no stop of the session had closed
UnexpectedClose == lastOp'.op = "session.onclose" /\ lastOp'.arg = "current"

\* C22 (as claimed): when the primary channel closes unexpectedly under a
\* streaming session the encoder is stopped and the session is Idle (not
\* streaming, not connected, no acquired stream held), and no socket is
\* created except by a start request.
C22_CloseResetsToIdle ==
  [][/\ (UnexpectedClose /\ panel.isStreaming) =>
          /\ intervals' = 0
          /\ frameService'.intervalId = 0
          /\ ~panel'.isStreaming
          /\ ~panel'.wsConnected
          /\ ~panel'.videoStream
     /\ SocketCreated => lastOp'.op = "handleStartStreaming"]_vars

\* C22 (amended): when the primary channel closes unexpectedly the encoder is
\* stopped and the panel is told, so that the session is Ready: not streaming,
\* not connected, the acquired stream kept; and no socket is created except
\* by a start request.
C22_CloseResetsToReady ==
  [][/\ UnexpectedClose =>
          /\ intervals' = 0
          /\ frameService'.intervalId = 0
          /\ ~panel'.isStreaming
          /\ ~panel'.wsConnected
          /\ panel'.videoStream = panel.videoStream
     /\ SocketCreated => lastOp'.op = "handleStartStreaming"]_vars

\* the channel has just closed under a session that had sent a frame; the
\* stream is still held and nothing is connecting
C22_Witness ==
  /\ lastOp.op = "session.onclose"
  /\ lastOp.arg = "current"
  /\ lastOp.res = "ok"
  /\ frameService.frameCount = 1
  /\ intervals = 0
  /\ panel.videoStream
  /\ ~panel.isStreaming
  /\ LiveSockets = {}

\* the connect of a socket of the primary channel fails in this step
ConnectFailed ==
  \E s \in SocketIds : sockets[s].rs = "CONNECTING" /\ sockets'[s].rs \in {"CLOSED", "NONE"}

\* the channel holds a socket that is open or can still become open
HalfOpen(svc, socks) == svc.ws # 0 /\ socks[svc.ws].rs \in {"CONNECTING", "OPEN"}

\* C23 (as claimed): when a connect started by handleStartStreaming fails, the
\* session is Ready afterwards: the acquired stream is kept, no frame timer
\* runs, the panel is not marked streaming or connected, and the channel
\* holds no socket that is open or can still become open.
C23_ConnectFailureToReady ==
  [][ConnectFailed =>
       /\ lastOp'.res = "rejected"
       /\ panel'.videoStream = panel.videoStream
       /\ intervals' = 0
       /\ ~panel'.isStreaming
       /\ ~panel'.wsConnected
       /\ ~HalfOpen(wsService', sockets')]_vars

\* C24: stopping a streaming video session whose channel is open clears the
\* encoder's timer and sends the encoder's stop message, then disconnects the
\* channel, which sends its own stop message and closes the socket, then
\* clears the acquired stream; no frame is encoded, sent or counted meanwhile.
C24_StopOrder ==
  [][(/\ lastOp'.op = "handleStopCapture"
      /\ panel.isStreaming
      /\ intervals = 1
      /\ IsConnected(wsService, sockets)) =>
       /\ intervals' = 0
       /\ frameService'.intervalId = 0
       /\ lastOp'.tx = <<[s |-> wsService.ws, f |-> "stop", res |-> "sent"],
                         [s |-> wsService.ws, f |-> "stop", res |-> "sent"]>>
       /\ sockets'[wsService.ws] = [rs |-> "CLOSING", req |-> TRUE]
       /\ wsService'.ws = 0
       /\ ~panel'.videoStream
       /\ ~panel'.isStreaming
       /\ pendingBlobs' = pendingBlobs
       /\ frameService'.frameCount = frameService.frameCount]_vars

\* a streaming session with an encoding still pending has just been stopped:
\* both stop messages went out and the stream is cleared
C24_Witness ==
  /\ lastOp.op = "handleStopCapture"
  /\ Len(lastOp.tx) = 2
  /\ Len(pendingBlobs) = 1
  /\ intervals = 0
  /\ ~panel.videoStream
  /\ wsService.ws = 0

\* the steps of handleStartStreaming that reach resetFrameCount()
StartSteps == {"handleStartStreaming", "session.onopen"}

\* C25 (as claimed): the encoder's frame counter changes only by going up by
\* one together with a frame handed to the channel, or by being set to zero
\* when a session is started; and an encoding requested before the start of
\* the session (its callback runs before the first tick of the new session)
\* is not counted in the new session.
C25_CounterPerSession ==
  [][/\ frameService'.frameCount # frameService.frameCount =>
          \/ /\ frameService'.frameCount = frameService.frameCount + 1
             /\ lastOp'.op = "session.toBlob"
             /\ Len(lastOp'.tx) = 1
             /\ lastOp'.tx[1].f = "bin"
          \/ /\ frameService'.frameCount = 0
             /\ lastOp'.op \in StartSteps
     /\ (lastOp'.op = "session.toBlob" /\ Len(lastOp'.tx) = 1) =>
          frameService'.frameCount = frameService.frameCount + 1
     /\ (/\ lastOp.op \in StartSteps
         /\ lastOp.res = "started"
         /\ lastOp'.op = "session.toBlob") =>
          frameService'.frameCount = 0]_vars

\* C26 (as claimed): frames are handed to the channel in the order of the
\* timer ticks that captured them: no frame is handed over after a frame
\* captured by a later tick, whatever the order the encodings complete in.
C26_ProductionOrder ==
  (lastOp.op = "toBlob" /\ lastOp.tx # <<>>) => lastOp.arg = "fresh"

\* C28 (as claimed): every media stream the audio capture service acquires
\* has its tracks stopped once: the streams with live tracks are exactly the
\* one the service holds, if it holds one.
C28_TracksStoppedOnce ==
  liveStreams = IF audioCapture.mediaStream THEN 1 ELSE 0

\* C27 (as claimed): once stopRecording has run, no audio chunk is handed to
\* the channel until recording is started again; in particular the last data
\* event of the stopped recorder sends nothing.
C27_NoChunkAfterStop ==
  [][(lastOp'.op = "analyzer.dataavailable" /\ ~analyzer.isRecording) =>
       lastOp'.tx = <<>>]_vars

\* C29 (as claimed): after stopRecording has run, whichever handler ran it
\* (the stop button, the auto-stop timeout, a capture error, the panel being
\* hidden), the audio panel offers its start button: it is neither recording
\* nor analyzing, and no server message is needed for that.
C29_StartEnabledAfterStop ==
  [][lastOp'.op = "stopRecording" =>
       (~analyzer'.isRecording /\ ~analyzer'.isAnalyzing)]_vars

\* C30 (as claimed): when the audio panel's acquisition of the media stream
\* is refused, the error is shown and the session is Idle: no recorder runs,
\* no stream is held, the panel is not recording, its auto-stop is not
\* pending, and the start button is offered for a retry.
C30_AcquisitionErrorToIdle ==
  [][(lastOp'.op = "analyzer.acquired" /\ lastOp'.arg = "denied") =>
       /\ analyzer'.error
       /\ audioCapture'.mediaRecorder # "recording"
       /\ ~audioCapture'.mediaStream
       /\ ~analyzer'.isRecording
       /\ ~analyzer'.autoStop
       /\ (analyzer'.visible => CanStartRecording')]_vars

\* C31 (as claimed): no run of the frame encoder's interval callback ends
\* in an exception that leaves the callback: whatever the source gives, the
\* tick requests an encoding or skips the frame.
C31_TickNeverThrows ==
  lastOp.op = "tick" => lastOp.res # "threw"

\* C32 (as claimed): a tick whose source has non-zero width and height while
\* the channel is connected emits exactly one chunk (it requests an encoding
\* and the encoding's callback, run while connected, sends one frame), and a
\* tick whose source has zero width or height emits none and raises no error.
\* The tick that throws on a canvas that is not origin-clean is left out.
C32_ChunkPerTick ==
  [][/\ (lastOp'.op = "tick" /\ lastOp'.arg = "zero") => lastOp'.res = "skipped"
     /\ (lastOp'.op = "tick" /\ lastOp'.arg \in {"nocontext", "drawn"}
                             /\ IsConnected(wsService, sockets))
          => lastOp'.res = "toBlob"
     /\ (lastOp'.op = "toBlob" /\ IsConnected(wsService, sockets))
          => Len(lastOp'.tx) = 1]_vars

\* C32 (amended): a tick requests at most one encoding and sends nothing
\* itself; it requests one exactly when the source has non-zero width and
\* height, a 2d context was obtained, the canvas is origin-clean and the
\* channel is connected, and with zero width or height it skips without an
\* error.  The callback of an encoding sends at most one chunk, and exactly
\* one when the encoder gave a blob and the channel is connected then.
C32_ChunkPerEncoding ==
  [][/\ lastOp'.op = "tick" =>
          /\ lastOp'.tx = <<>>
          /\ (lastOp'.res = "toBlob") <=>
               (lastOp'.arg = "drawn" /\ IsConnected(wsService, sockets))
          /\ pendingBlobs' = IF lastOp'.res = "toBlob"
                               THEN Append(pendingBlobs, "fresh")
                               ELSE pendingBlobs
          /\ lastOp'.arg = "zero" => lastOp'.res = "skipped"
     /\ lastOp'.op = "toBlob" =>
          /\ Len(lastOp'.tx) <= 1
          /\ (Len(lastOp'.tx) = 1) <=>
               (lastOp'.res # "null" /\ IsConnected(wsService, sockets))
          /\ \A i \in 1..Len(lastOp'.tx) :
               lastOp'.tx[i].f = "bin" /\ lastOp'.tx[i].res = "sent"
          /\ frameService'.frameCount = frameService.frameCount + Len(lastOp'.tx)
          /\ Len(pendingBlobs') = Len(pendingBlobs) - 1]_vars

\* two ticks of one session have each had their frame sent
C32_Witness ==
  /\ lastOp.op = "toBlob"
  /\ lastOp.tx # <<>>
  /\ frameService.frameCount = 2
  /\ pendingBlobs = <<>>

\* C33: codec selection returns the first entry of the preference list
\* audio/webm;codecs=opus, audio/webm, audio/ogg;codecs=opus, audio/mp4 that
\* the probe accepts, and audio/webm when it accepts none of them.
C33_FirstSupported ==
  lastOp.op = "getSupportedMimeType" =>
    LET preference == <<"audio/webm;codecs=opus", "audio/webm",
                        "audio/ogg;codecs=opus", "audio/mp4">>
        accepted   == {i \in 1..4 : preference[i] \in lastOp.arg}
    IN  IF accepted = {}
          THEN lastOp.res = "audio/webm"
          ELSE \E i \in accepted :
                 /\ \A j \in accepted : i <= j
                 /\ lastOp.res = preference[i]

\* the probe refuses the first two entries and accepts the last two, and
\* the third is chosen
C33_Witness ==
  /\ lastOp.op = "getSupportedMimeType"
  /\ lastOp.arg = {"audio/ogg;codecs=opus", "audio/mp4", "audio/wav"}
  /\ lastOp.res = "audio/ogg;codecs=opus"

\* C34 (as claimed): a close event of a socket that the primary channel no
\* longer holds because disconnect() closed and discarded it does not reach
\* the close handler: the panel and the frame encoder are as they were
\* before the event.
C34_DiscardedSocketSilent ==
  [][(lastOp'.op = "session.onclose" /\ lastOp'.arg = "stopped") =>
       /\ panel' = panel
       /\ frameService' = frameService
       /\ intervals' = intervals
       /\ lastOp'.tx = <<>>]_vars

\* C35 (as claimed): when disconnect() of the primary channel returns, no
\* socket the channel constructed is open or still connecting, whatever
\* state its socket was in at the call.
C35_DisconnectLeavesNoSocket ==
  [][lastOp'.op = "disconnect" =>
       \A s \in SocketIds : sockets'[s].rs \notin {"CONNECTING", "OPEN"}]_vars

\* C36 (as claimed): connected() of the audio channel is true exactly when
\* the socket the channel holds is open.  A socket in its closing handshake
\* is let pass as open here, so that only a flag out of step with the
\* channel's own socket counts.
C36_FlagTracksSocket ==
  /\ audioWs.isConnected =>
       (audioWs.ws # 0 /\ audioSockets[audioWs.ws].rs \in {"OPEN", "CLOSING"})
  /\ (audioWs.ws # 0 /\ audioSockets[audioWs.ws].rs = "OPEN") => audioWs.isConnected

\* C37 (as claimed): a binary chunk is transmitted on a socket of the audio
\* channel only if that socket has accepted a start control message before,
\* also when the socket was opened by an automatic reconnect.
C37_StartBeforeChunks ==
  [][\A i \in 1..Len(lastOp'.tx) :
       (lastOp'.tx[i].f = "bin" /\ lastOp'.tx[i].res = "sent")
         => lastOp'.tx[i].s \in analyzer.startedOn]_vars

\* C38 (as claimed): handleStopStreaming on a streaming session whose channel
\* is open has exactly one stop control message accepted by the socket, and
\* the socket is closing afterwards.
C38_OneStopMessage ==
  [][(/\ lastOp'.op = "handleStopStreaming"
      /\ panel.isStreaming
      /\ IsConnected(wsService, sockets)) =>
       /\ Cardinality({i \in 1..Len(lastOp'.tx) :
                         lastOp'.tx[i].f = "stop" /\ lastOp'.tx[i].res = "sent"}) = 1
       /\ sockets'[wsService.ws].rs = "CLOSING"]_vars

\* C39 (as claimed): however often the panel was shown and hidden, a message
\* of the audio channel is handed to the analyzer's message callback once.
C39_MessageHandledOnce ==
  (lastOp.op = "analyzer.onmessage" /\ lastOp.res = "delivered") =>
    Len(lastOp.calls) = 1

\* C40 (as claimed): while the panel is hidden no audio capture is active:
\* the recorder is not recording, no acquired stream is held and the capture
\* service is not marked recording.
C40_HiddenMeansIdle ==
  ~analyzer.visible =>
    /\ audioCapture.mediaRecorder # "recording"
    /\ ~audioCapture.mediaStream
    /\ ~audioCapture.isRecording

====
